---- MODULE Spec2Model ----
(***************************************************************************)
(* Model of the PWDumpX / lsadump2 sources:                                *)
(*   - the injection routine (InjectDLL of DumpSvc.c, InjectDll of         *)
(*     lsadump2.c),                                                        *)
(*   - the host fan-out of PWDumpX.c (main and ThreadedSub),               *)
(*   - the cache-record loop of DumpPWCache (DumpExt.c),                   *)
(*   - the account loops of DumpPWHashes / DumpPWHistoryHashes (DumpExt.c),*)
(*   - the rendering of the LM and NT fields of DumpPWHashes (DumpExt.c),  *)
(*   - the secret loops of DumpLSASecrets, DumpPWCache (DumpExt.c) and     *)
(*     DumpLsa (dumplsa.c),                                                *)
(*   - the entry point DumpLSAInfo (DumpExt.c),                            *)
(*   - the hex dump of DumpSecretData (DumpExt.c) and dump_bytes           *)
(*     (dumplsa.c),                                                        *)
(*   - EncryptOutputFile (DumpExt.c) and DecryptOutputFile (PWDumpX.c),    *)
(*   - the thunk run in the target (LsaThreadFunction, RemoteFunction),    *)
(*   - the field offsets of a cache record (DumpPWCache of DumpExt.c),     *)
(*   - main and ReceiveOutput of lsadump2.c with DumpLsa's end of the pipe,*)
(*   - the way of the category flags from RunPWDumpX (PWDumpX.c) through   *)
(*     ServiceMain, InjectDLL and LsaThreadFunction (DumpSvc.c).           *)
(* Each part has its own specification over its own variables; the        *)
(* variables of the other parts stay at their initial value.               *)
(***************************************************************************)
EXTENDS Integers, Naturals, Sequences, FiniteSets, TLC

VARIABLES
    \* ---- injection (DumpSvc.c InjectDLL, lsadump2.c InjectDll)
    variant,        \* which routine runs: "InjectDLL" or "InjectDll"
    ipc,            \* position in the routine
    thunkAddr,      \* (DWORD) address of LsaThreadFunction / RemoteFunction
    markerAddr,     \* (DWORD) address of DummyFunction / DummyFunc
    dwFunctionSize, \* dwFunctionSize / dwFuncSize
    dwBytesToAlloc, \* dwBytesToAlloc
    pRemoteAlloc,   \* the remote allocation: "null", "allocated", "freed"
    hRemoteThread,  \* the thread handle: "null", "open", "closed"
    remoteThread,   \* the thread in the target: "none", "running", "terminated"
    hLSASS,         \* process handle: "null", "open"
    freeCalls,      \* number of VirtualFreeEx calls made
    injErr,         \* error lines written (ErrorLog.txt / stderr)
    pLoaderFuncs,   \* the three loader addresses: "unset", "resolved", "NULL" (one is)
    remoteMem,      \* the WriteProcessMemory calls that succeeded, in order
    lpStartAddress, \* start address of the remote thread, from pRemoteAlloc; -1: none
    lpParameter,    \* argument of the remote thread, from pRemoteAlloc; -1: none
    tpc,            \* position of the thunk running in the target
    hDumpExt,       \* hDumpExt / hDll: "null", "loaded", "freed"
    pDumpLSAInfo,   \* pDumpLSAInfo / pDumpLsa: "unset", "resolved", "NULL"
    thunkCalls,     \* the calls the thunk has made, in order
    thunkRc,        \* rc of RemoteFunction
    \* ---- host fan-out (PWDumpX.c main, ThreadedSub)
    inputIsFile,    \* fopen( szTargetInput ) succeeded: the argument is a host list
    unread,         \* lines of the host list not yet read by fscanf
    mpc,            \* position of main
    nThreads,       \* the global INT nThreads
    hSemaphore,     \* count of the semaphore CreateSemaphore( NULL, 1, 1, NULL )
    tRun,           \* threads begun that have not finished their host run
    tWait,          \* threads past their host run, in WaitForSingleObject
    tDec,           \* threads holding the semaphore, before nThreads--
    tRelease,       \* threads holding the semaphore, after nThreads--
    tFailed,        \* calls of _beginthread that started no thread
    \* ---- cache records (DumpExt.c DumpPWCache, the NL$i loop)
    cpc,            \* position: "loop" (at RegQueryValueEx) or "done"
    ci,             \* the loop index i of NL$i
    keyId,          \* which NL$KM secret the host has (pLsaKey)
    bCacheVal,      \* BYTE bCacheVal[ 4096 ], kept across iterations
    cacheOut,       \* lines appended to PWCache.txt
    cacheHist,      \* per queried value: what was presented and what was done
    \* ---- accounts (DumpExt.c DumpPWHashes, DumpPWHistoryHashes)
    samRoutine,     \* which routine runs: "DumpPWHashes" or "DumpPWHistoryHashes"
    spc,            \* position in the routine
    hSAMSrv,        \* samsrv.dll: "null", "loaded", "freed"
    hAdvapi32,      \* advapi32.dll (history only): "null", "loaded", "freed"
    hLSA,           \* policy handle: "null", "open", "closed"
    pDomainInfo,    \* account-domain information: "null", "live", "freed"
    hSAM,           \* account-store connection: "null", "open", "closed"
    hDomain,        \* domain handle: "null", "open", "closed"
    hUser,          \* user handle: "null", "open", "closed"
    sueEnum,        \* enumeration page: "null", "live", "freed"
    pHashData,      \* hash info buffer, then private-data blob: "null", "live", "freed"
    nEnumStatus,    \* status of the last SamrEnumerateUsersInDomain
    dwEnumCalls,    \* number of SamrEnumerateUsersInDomain calls made
    dwEnum,         \* the continuation cursor dwEnum
    sueUsers,       \* sueEnum->Users: the Rids of the entries of the current page
    samSeen,        \* the Rids passed to SamrOpenUser, in call order
    dwNumber,       \* entries in the current page
    si,             \* the loop index i over the page
    dwPrivSize,     \* dwSize returned by SamIGetPrivateData
    dwHashes,       \* dwHashes
    dwOffset,       \* dwOffset
    sj,             \* the loop index j over the history slots
    samOpens,       \* per kind of handle or buffer: how many were handed out
    samCloses,      \* per kind: how many close / free calls were made
    samBad,         \* misuses seen: a close or free of something not held, a use of a freed buffer
    samOut,         \* lines appended to the output file for the entry in hand
    samFail,        \* calls that failed for the entry in hand
    samErr,         \* lines written to the error log
    \* ---- the hash fields of an output line (DumpExt.c DumpPWHashes)
    hpc,            \* position: "LM", "NT", "fprintf"
    HashData,       \* the 32 bytes of HashData after memcpy( HashData, pHashData, 32 )
    szLMHash,       \* the characters of szLMHash
    szNTHash,       \* the characters of szNTHash
    \* ---- secrets (DumpExt.c DumpLSASecrets, DumpPWCache; dumplsa.c DumpLsa)
    secRoutine,     \* which routine runs: "DumpLSASecrets", "DumpPWCache" or "DumpLsa"
    qpc,            \* position in the routine
    hPolicy,        \* policy handle: "null", "open", "closed"
    hSecret,        \* secret handle: "null" (0), "open", "closed"
    lsaData,        \* value buffer: "null", "live", "freed"
    secI,           \* the loop index i over the secret names
    nameLen,        \* wcslen( wszSecret ) of the name in hand
    lusSecret,      \* Length and MaximumLength of lusSecret / lsaSecret
    secTries,       \* the LsarOpenSecret calls made for the name in hand
    secOut,         \* secret records written to the output
    secErr,         \* errors written to the error log or sent down the pipe
    secOpens,       \* per kind of handle or buffer: how many were handed out
    secCloses,      \* per kind: how many close / free calls were made
    secBad,         \* misuses seen
    \* ---- the entry point (DumpExt.c DumpLSAInfo)
    bDumpPWCache,   \* the four flags of the request
    bDumpLSASecrets,
    bDumpPWHashes,
    bDumpPWHistoryHashes,
    lpc,            \* position: the if statement to execute next, or "return"
    lReturn,        \* the registry call of the cache block that failed, or "read"
    szCurrentVersion, \* the characters of szCurrentVersion
    infoRan,        \* the category routines called, in order
    infoFiles,      \* the arguments of the EncryptOutputFile calls, in order
    infoErr,        \* the error-log lines, each with the routine that wrote it
    \* ---- the hex dump (DumpExt.c DumpSecretData, dumplsa.c dump_bytes)
    dpc,            \* position: "while" or "return"
    dumpIn,         \* the bytes passed to the routine
    pDump,          \* the bytes from p on
    dwDumpSize,     \* dwSize / sz of the dump routine
    dumpLines,      \* the lines written, each a sequence of character codes
    \* ---- the transit transform (DumpExt.c EncryptOutputFile, PWDumpX.c DecryptOutputFile)
    xpc,            \* which routine runs: "EncryptOutputFile", "DecryptOutputFile", or "done"
    fileOriginal,   \* the characters of the output file before EncryptOutputFile
    pInputFile,     \* the characters of szFile not yet read
    szOutputFile,   \* the characters of the file <name>.Obfuscated
    fileObfuscated, \* the characters of the file after EncryptOutputFile
    fileRestored,   \* the characters of the file after DecryptOutputFile
    \* ---- field offsets of a cache record (DumpExt.c DumpPWCache)
    opc,            \* position in the body of the loop
    usernameLen,    \* dwUsername = bCacheVal[0]
    domainLen,      \* dwDomain = bCacheVal[2]
    dwJoke,         \* DWORD dwJoke[ 2 ]
    domainOffset,   \* the index the domain is read from
    dnsOffset,      \* the index the DNS domain is read from
    dnsDomainLen,   \* dwDNSDomain = bCacheVal[60]
    nulIndex,       \* the index of the '\0' written to szUsername, szDomain, szDNSDomain
    lastRead,       \* the highest index of bCacheVal read; -1: none
    \* ---- lsadump2: main, ReceiveOutput (lsadump2.c) and the pipe end of DumpLsa (dumplsa.c)
    l2pc,           \* position of main
    rpc,            \* position of ReceiveOutput; "none": the thread was not created
    hPipe,          \* hPipe of ReceiveOutput: "unset", "open", "INVALID_HANDLE_VALUE", "closed"
    hEvent,         \* the event: "NULL", "nonsignaled", "signaled"
    dwErr,          \* dwErr of ReceiveOutput
    dlpc,           \* position of DumpLsa in the target; "none": not called
    pipeClient,     \* the client end of the pipe: "none", "connected", "closed"
    pipeChunks,     \* pieces of text sent and not yet read
    dlSent,         \* pieces of text sent
    pipeAtInject,   \* hPipe when InjectDll was called
    \* ---- the way of the category flags (PWDumpX.c RunPWDumpX, DumpSvc.c)
    fpc,            \* where the flags are
    flagsCmd,       \* the flags of the command line, as RunPWDumpX is given them
    szFlagText,     \* szDumpPWCache, ..., szDumpPWHistoryHashes of RunPWDumpX
    pArgumentsWritten, \* the indices of pArguments assigned to, in order
    pastArguments,  \* what lies past the end of pArguments
    svcArgv,        \* argv of ServiceMain
    flagsSvc,       \* the flags of ServiceMain
    flagsThreadArgs, \* the flags in ThreadArgs
    flagsEngine     \* the arguments of DumpLSAInfo

injVars == <<variant, ipc, thunkAddr, markerAddr, dwFunctionSize, dwBytesToAlloc,
             pRemoteAlloc, hRemoteThread, remoteThread, hLSASS, freeCalls, injErr,
             pLoaderFuncs, remoteMem, lpStartAddress, lpParameter,
             tpc, hDumpExt, pDumpLSAInfo, thunkCalls, thunkRc>>

thunkVars == <<tpc, hDumpExt, pDumpLSAInfo, thunkCalls, thunkRc>>

orchVars == <<inputIsFile, unread, mpc, nThreads, hSemaphore, tRun, tWait, tDec, tRelease,
              tFailed>>

cacheVars == <<cpc, ci, keyId, bCacheVal, cacheOut, cacheHist>>

samVars == <<samRoutine, spc, hSAMSrv, hAdvapi32, hLSA, pDomainInfo, hSAM, hDomain,
             hUser, sueEnum, pHashData, nEnumStatus, dwEnumCalls, dwEnum, sueUsers,
             samSeen, dwNumber, si, dwPrivSize, dwHashes, dwOffset, sj, samOpens, samCloses,
             samBad, samOut, samFail, samErr>>

hashVars == <<hpc, HashData, szLMHash, szNTHash>>

secVars == <<secRoutine, qpc, hPolicy, hSecret, lsaData, secI, nameLen, lusSecret,
             secTries, secOut, secErr, secOpens, secCloses, secBad>>

infoVars == <<bDumpPWCache, bDumpLSASecrets, bDumpPWHashes, bDumpPWHistoryHashes, lpc,
              lReturn, szCurrentVersion, infoRan, infoFiles, infoErr>>

dumpVars == <<dpc, dumpIn, pDump, dwDumpSize, dumpLines>>

xorVars == <<xpc, fileOriginal, pInputFile, szOutputFile, fileObfuscated, fileRestored>>

layoutVars == <<opc, usernameLen, domainLen, dwJoke, domainOffset, dnsOffset,
                dnsDomainLen, nulIndex, lastRead>>

lsdVars == <<l2pc, rpc, hPipe, hEvent, dwErr, dlpc, pipeClient, pipeChunks, dlSent,
             pipeAtInject>>

flagVars == <<fpc, flagsCmd, szFlagText, pArgumentsWritten, pastArguments, svcArgv,
              flagsSvc, flagsThreadArgs, flagsEngine>>

vars == <<injVars, orchVars, cacheVars, samVars, hashVars, secVars, infoVars, dumpVars,
          xorVars, layoutVars, lsdVars, flagVars>>

\* What each part leaves alone
notInj == <<orchVars, cacheVars, samVars, hashVars, secVars, infoVars, dumpVars,
            xorVars, layoutVars, lsdVars, flagVars>>

notOrch == <<injVars, cacheVars, samVars, hashVars, secVars, infoVars, dumpVars,
             xorVars, layoutVars, lsdVars, flagVars>>

notCache == <<injVars, orchVars, samVars, hashVars, secVars, infoVars, dumpVars,
              xorVars, layoutVars, lsdVars, flagVars>>

notSam == <<injVars, orchVars, cacheVars, hashVars, secVars, infoVars, dumpVars,
            xorVars, layoutVars, lsdVars, flagVars>>

notHash == <<injVars, orchVars, cacheVars, samVars, secVars, infoVars, dumpVars,
             xorVars, layoutVars, lsdVars, flagVars>>

notSec == <<injVars, orchVars, cacheVars, samVars, hashVars, infoVars, dumpVars,
            xorVars, layoutVars, lsdVars, flagVars>>

notInfo == <<injVars, orchVars, cacheVars, samVars, hashVars, secVars, dumpVars,
             xorVars, layoutVars, lsdVars, flagVars>>

notDump == <<injVars, orchVars, cacheVars, samVars, hashVars, secVars, infoVars,
             xorVars, layoutVars, lsdVars, flagVars>>

notXor == <<injVars, orchVars, cacheVars, samVars, hashVars, secVars, infoVars,
            dumpVars, layoutVars, lsdVars, flagVars>>

notLayout == <<injVars, orchVars, cacheVars, samVars, hashVars, secVars, infoVars,
               dumpVars, xorVars, lsdVars, flagVars>>

notLsd == <<injVars, orchVars, cacheVars, samVars, hashVars, secVars, infoVars,
            dumpVars, xorVars, layoutVars, flagVars>>

notFlag == <<injVars, orchVars, cacheVars, samVars, hashVars, secVars, infoVars,
             dumpVars, xorVars, layoutVars, lsdVars>>

----------------------------------------------------------------------------
\* Widths and layout

\* A DWORD is kept as its two 16-bit halves <<high, low>>, so that 32-bit
\* unsigned arithmetic wraps exactly as on the machine.
TwoTo16 == 65536

\* (DWORD) of a natural number below 2^31
ToDWORD(n) == <<n \div TwoTo16, n % TwoTo16>>

\* a + b in DWORD arithmetic
DAdd(a, b) ==
    LET lo == a[2] + b[2]
        carry == lo \div TwoTo16
    IN  <<(a[1] + b[1] + carry) % TwoTo16, lo % TwoTo16>>

\* a - b in DWORD arithmetic
DSub(a, b) ==
    LET lo == a[2] - b[2]
        borrow == IF lo < 0 THEN 1 ELSE 0
    IN  <<(a[1] - b[1] - borrow + TwoTo16) % TwoTo16, (lo + TwoTo16) % TwoTo16>>

DZero == <<0, 0>>

\* sizeof( THREAD_ARGS ) of DumpSvc.c: 3 pointers + 512 + 128 + 4 BOOLs
SizeofThreadArgs == 668

\* sizeof( REMOTE_INFO ) of lsadump2.h: 3 pointers + 3 * (MAX_PATH+1), padded to 4
SizeofRemoteInfo == 796

SizeofArgs(v) == IF v = "InjectDLL" THEN SizeofThreadArgs ELSE SizeofRemoteInfo

\* Address of the thunk in the models' builds
ThunkBase == 4198400

\* Distances marker - thunk a build may produce.  The source only assumes the
\* marker follows the thunk; the compiler and linker are free to place the two
\* functions in any order and at any distance.
LayoutDeltas == {1, 32, 80, 0 - 16, 0 - 672, 0 - 800}

\* The marker's address at distance d from the thunk
MarkerAt(d) ==
    IF d >= 0 THEN DAdd(ToDWORD(ThunkBase), ToDWORD(d))
              ELSE DSub(ToDWORD(ThunkBase), ToDWORD(0 - d))

----------------------------------------------------------------------------
\* Injection: InjectDLL (DumpSvc.c) and InjectDll (lsadump2.c)

\* dwFunctionSize = (DWORD)DummyFunction - (DWORD)LsaThreadFunction
FunctionSize(marker, thunk) == DSub(marker, thunk)

\* dwBytesToAlloc = dwFunctionSize + sizeof( THREAD_ARGS ) + 4
BytesToAlloc(v, fsize) == DAdd(DAdd(fsize, ToDWORD(SizeofArgs(v))), ToDWORD(4))

\* WaitForSingleObject( hRemoteThread, INFINITE ) returns
WaitReturnsEarly == remoteThread \in {"running", "terminated"}

WaitReturns == remoteThread = "terminated"

\* (BYTE *)pRemoteAlloc + sizeof( THREAD_ARGS ) + 4, the destination of the
\* second WriteProcessMemory, as an offset from pRemoteAlloc
ThunkOffset(v) == SizeofArgs(v) + 4

\* (BYTE *)pRemoteAlloc + sizeof( THREAD_ARGS ) + 4, the start address given to
\* CreateRemoteThread, as an offset from pRemoteAlloc
StartOffsetUnpadded(v) == SizeofArgs(v)

StartOffset(v) == SizeofArgs(v) + 4

InjInit ==
    /\ variant \in {"InjectDLL", "InjectDll"}
    /\ ipc = IF variant = "InjectDLL" THEN "OpenProcess" ELSE "GetProcAddress"
    /\ thunkAddr = ToDWORD(ThunkBase)
    /\ markerAddr \in {MarkerAt(d) : d \in LayoutDeltas}
    /\ dwFunctionSize = DZero
    /\ dwBytesToAlloc = DZero
    /\ pRemoteAlloc = "null"
    /\ hRemoteThread = "null"
    /\ remoteThread = "none"
    /\ hLSASS = IF variant = "InjectDLL" THEN "null" ELSE "open"
    /\ freeCalls = 0
    /\ injErr = <<>>
    /\ pLoaderFuncs = "unset"
    /\ remoteMem = <<>>
    /\ lpStartAddress = 0 - 1 /\ lpParameter = 0 - 1
    /\ tpc = "LoadLibrary" /\ hDumpExt = "null" /\ pDumpLSAInfo = "unset"
    /\ thunkCalls = <<>> /\ thunkRc = 0 - 1

\* DumpSvc.c: hLSASS = OpenProcess( ... ); else branch logs and returns
InjectDLL_OpenProcess ==
    /\ variant = "InjectDLL" /\ ipc = "OpenProcess"
    /\ \E ok \in BOOLEAN :
         IF ok
         THEN hLSASS' = "open" /\ ipc' = "GetProcAddress" /\ injErr' = injErr
         ELSE hLSASS' = "null" /\ ipc' = "return"
              /\ injErr' = Append(injErr, "Cannot open LSASS process")
    /\ UNCHANGED <<variant, thunkAddr, markerAddr, dwFunctionSize, dwBytesToAlloc,
                   pRemoteAlloc, hRemoteThread, remoteThread, freeCalls>>
    /\ UNCHANGED <<pLoaderFuncs, remoteMem, lpStartAddress, lpParameter>>
    /\ UNCHANGED thunkVars
    /\ UNCHANGED notInj

\* DumpSvc.c: the three loader addresses are resolved and tested
InjectDLL_GetProcAddress ==
    /\ variant = "InjectDLL" /\ ipc = "GetProcAddress"
    /\ \E ok \in BOOLEAN :
         IF ok
         THEN pLoaderFuncs' = "resolved" /\ ipc' = "Size" /\ injErr' = injErr
         ELSE pLoaderFuncs' = "NULL" /\ ipc' = "return"
              /\ injErr' = Append(injErr, "Cannot load Kernel32.dll functions")
    /\ UNCHANGED <<variant, thunkAddr, markerAddr, dwFunctionSize, dwBytesToAlloc,
                   pRemoteAlloc, hRemoteThread, remoteThread, hLSASS, freeCalls>>
    /\ UNCHANGED <<remoteMem, lpStartAddress, lpParameter>>
    /\ UNCHANGED thunkVars
    /\ UNCHANGED notInj

\* lsadump2.c: the three loader addresses are resolved and not tested
InjectDll_GetProcAddress ==
    /\ variant = "InjectDll" /\ ipc = "GetProcAddress"
    /\ \E ok \in BOOLEAN : pLoaderFuncs' = IF ok THEN "resolved" ELSE "NULL"
    /\ ipc' = "Size"
    /\ UNCHANGED <<variant, thunkAddr, markerAddr, dwFunctionSize, dwBytesToAlloc,
                   pRemoteAlloc, hRemoteThread, remoteThread, hLSASS, freeCalls, injErr>>
    /\ UNCHANGED <<remoteMem, lpStartAddress, lpParameter>>
    /\ UNCHANGED thunkVars
    /\ UNCHANGED notInj

\* both: dwFunctionSize and dwBytesToAlloc
Inject_Size ==
    /\ ipc = "Size"
    /\ dwFunctionSize' = FunctionSize(markerAddr, thunkAddr)
    /\ dwBytesToAlloc' = BytesToAlloc(variant, dwFunctionSize')
    /\ ipc' = "VirtualAllocEx"
    /\ UNCHANGED <<variant, thunkAddr, markerAddr, pRemoteAlloc, hRemoteThread,
                   remoteThread, hLSASS, freeCalls, injErr>>
    /\ UNCHANGED <<pLoaderFuncs, remoteMem, lpStartAddress, lpParameter>>
    /\ UNCHANGED thunkVars
    /\ UNCHANGED notInj

\* both: pRemoteAlloc = VirtualAllocEx( ... ); NULL logs and returns.
\* A request for 0 bytes is refused by the system.
Inject_VirtualAllocEx ==
    /\ ipc = "VirtualAllocEx"
    /\ \E ok \in (IF dwBytesToAlloc = DZero THEN {FALSE} ELSE BOOLEAN) :
         IF ok
         THEN pRemoteAlloc' = "allocated" /\ ipc' = "WriteArgs" /\ injErr' = injErr
         ELSE pRemoteAlloc' = "null" /\ ipc' = "return"
              /\ injErr' = Append(injErr, "Cannot allocate virtual memory")
    /\ UNCHANGED <<variant, thunkAddr, markerAddr, dwFunctionSize, dwBytesToAlloc,
                   hRemoteThread, remoteThread, hLSASS, freeCalls>>
    /\ UNCHANGED <<pLoaderFuncs, remoteMem, lpStartAddress, lpParameter>>
    /\ UNCHANGED thunkVars
    /\ UNCHANGED notInj

\* Where a failed step of the routine continues: DumpSvc.c falls out of the
\* nested ifs to the end of the function, lsadump2.c jumps to the exit label.
AfterFailure(v) == IF v = "InjectDLL" THEN "return" ELSE "exit"

\* both: WriteProcessMemory of the argument block to pRemoteAlloc; remoteMem
\* holds the writes that succeeded, each with its offset from pRemoteAlloc
Inject_WriteArgs ==
    /\ ipc = "WriteArgs"
    /\ \E ok \in BOOLEAN :
         IF ok
         THEN /\ remoteMem' = Append(remoteMem,
                     [at |-> 0, from |-> "args", size |-> ToDWORD(SizeofArgs(variant))])
              /\ ipc' = "WriteThunk" /\ injErr' = injErr
         ELSE /\ remoteMem' = remoteMem
              /\ ipc' = AfterFailure(variant)
              /\ injErr' = Append(injErr, "Cannot write to process memory")
    /\ UNCHANGED <<variant, thunkAddr, markerAddr, dwFunctionSize, dwBytesToAlloc,
                   pRemoteAlloc, hRemoteThread, remoteThread, hLSASS, freeCalls>>
    /\ UNCHANGED <<pLoaderFuncs, lpStartAddress, lpParameter>>
    /\ UNCHANGED thunkVars
    /\ UNCHANGED notInj

\* both: WriteProcessMemory of the thunk at pRemoteAlloc + sizeof + 4
Inject_WriteThunk ==
    /\ ipc = "WriteThunk"
    /\ \E ok \in BOOLEAN :
         IF ok
         THEN /\ remoteMem' = Append(remoteMem,
                     [at |-> ThunkOffset(variant), from |-> "thunk",
                      size |-> dwFunctionSize])
              /\ ipc' = "CreateRemoteThread" /\ injErr' = injErr
         ELSE /\ remoteMem' = remoteMem
              /\ ipc' = AfterFailure(variant)
              /\ injErr' = Append(injErr, "Cannot write to process memory")
    /\ UNCHANGED <<variant, thunkAddr, markerAddr, dwFunctionSize, dwBytesToAlloc,
                   pRemoteAlloc, hRemoteThread, remoteThread, hLSASS, freeCalls>>
    /\ UNCHANGED <<pLoaderFuncs, lpStartAddress, lpParameter>>
    /\ UNCHANGED thunkVars
    /\ UNCHANGED notInj

\* both: hRemoteThread = CreateRemoteThread( ..., pRemoteAlloc + sizeof + 4,
\* pRemoteAlloc, ... ); the two addresses are kept as offsets from pRemoteAlloc
Inject_CreateRemoteThread ==
    /\ ipc = "CreateRemoteThread"
    /\ \E ok \in BOOLEAN :
         IF ok
         THEN /\ hRemoteThread' = "open" /\ remoteThread' = "running"
              /\ lpStartAddress' = StartOffset(variant) /\ lpParameter' = 0
              /\ ipc' = "Wait" /\ injErr' = injErr
         ELSE /\ hRemoteThread' = "null" /\ remoteThread' = "none"
              /\ UNCHANGED <<lpStartAddress, lpParameter>>
              /\ ipc' = AfterFailure(variant)
              /\ injErr' = Append(injErr, "Cannot create thread")
    /\ UNCHANGED <<variant, thunkAddr, markerAddr, dwFunctionSize, dwBytesToAlloc,
                   pRemoteAlloc, hLSASS, freeCalls>>
    /\ UNCHANGED <<pLoaderFuncs, remoteMem>>
    /\ UNCHANGED thunkVars
    /\ UNCHANGED notInj

\* A call through one of the three loader addresses of the argument block: when
\* one of them is NULL the call may be the one that faults; pFreeLibrary is called
\* after the other two were, so it is then the NULL one
MayFault(f) ==
    IF pLoaderFuncs # "NULL" THEN {FALSE}
    ELSE IF f = "FreeLibrary" THEN {TRUE} ELSE BOOLEAN

ThunkFault ==
    /\ tpc' = "fault"
    /\ UNCHANGED <<hDumpExt, pDumpLSAInfo, thunkCalls, thunkRc>>

AfterLoadLibrary(h) == IF h # "null" THEN "GetProcAddress" ELSE "return"

AfterGetProcAddressSkipsFree(q) == IF q # "NULL" THEN "call" ELSE "return"

AfterGetProcAddress(q) == IF q # "NULL" THEN "call" ELSE "FreeLibrary"

InjLeftByThunk ==
    UNCHANGED <<variant, ipc, thunkAddr, markerAddr, dwFunctionSize, dwBytesToAlloc,
                pRemoteAlloc, hRemoteThread, remoteThread, hLSASS, freeCalls, injErr,
                pLoaderFuncs, remoteMem, lpStartAddress, lpParameter>>

\* both thunks: hDumpExt = pThreadArgs->pLoadLibrary( pThreadArgs->szDllName )
Thunk_LoadLibrary ==
    /\ remoteThread = "running" /\ tpc = "LoadLibrary"
    /\ \E fault \in MayFault("LoadLibrary"), h \in {"null", "loaded"} :
          IF fault THEN ThunkFault
          ELSE /\ thunkCalls' = Append(thunkCalls, "LoadLibrary")
               /\ hDumpExt' = h
               /\ tpc' = AfterLoadLibrary(h)
               /\ UNCHANGED <<pDumpLSAInfo, thunkRc>>
    /\ InjLeftByThunk
    /\ UNCHANGED notInj

\* both thunks: pDumpLSAInfo = pThreadArgs->pGetProcAddress( hDumpExt, ... )
Thunk_GetProcAddress ==
    /\ remoteThread = "running" /\ tpc = "GetProcAddress"
    /\ \E fault \in MayFault("GetProcAddress"), q \in {"NULL", "resolved"} :
          IF fault THEN ThunkFault
          ELSE /\ thunkCalls' = Append(thunkCalls, "GetProcAddress")
               /\ pDumpLSAInfo' = q
               /\ tpc' = AfterGetProcAddress(q)
               /\ UNCHANGED <<hDumpExt, thunkRc>>
    /\ InjLeftByThunk
    /\ UNCHANGED notInj

\* LsaThreadFunction: pDumpLSAInfo( flags ); RemoteFunction: rc = pDumpLsa( szPipeName )
Thunk_Call ==
    /\ remoteThread = "running" /\ tpc = "call"
    /\ thunkCalls' = Append(thunkCalls, "entry")
    /\ \E r \in {0, 1} :
          thunkRc' = IF variant = "InjectDll" THEN r ELSE thunkRc
    /\ tpc' = "FreeLibrary"
    /\ UNCHANGED <<hDumpExt, pDumpLSAInfo>>
    /\ InjLeftByThunk
    /\ UNCHANGED notInj

\* both thunks: pThreadArgs->pFreeLibrary( hDumpExt )
Thunk_FreeLibrary ==
    /\ remoteThread = "running" /\ tpc = "FreeLibrary"
    /\ \E fault \in MayFault("FreeLibrary") :
          IF fault THEN ThunkFault
          ELSE /\ thunkCalls' = Append(thunkCalls, "FreeLibrary")
               /\ hDumpExt' = "freed"
               /\ tpc' = "return"
               /\ UNCHANGED <<pDumpLSAInfo, thunkRc>>
    /\ InjLeftByThunk
    /\ UNCHANGED notInj

\* The thunk running in the target process ends: it returns, or it has faulted
RemoteThreadExit ==
    /\ remoteThread = "running"
    /\ tpc \in {"return", "fault"}
    /\ remoteThread' = "terminated"
    /\ UNCHANGED <<variant, ipc, thunkAddr, markerAddr, dwFunctionSize, dwBytesToAlloc,
                   pRemoteAlloc, hRemoteThread, hLSASS, freeCalls, injErr>>
    /\ UNCHANGED <<pLoaderFuncs, remoteMem, lpStartAddress, lpParameter>>
    /\ UNCHANGED thunkVars
    /\ UNCHANGED notInj

\* both: WaitForSingleObject( hRemoteThread, INFINITE )
Inject_Wait ==
    /\ ipc = "Wait"
    /\ WaitReturns
    /\ ipc' = IF variant = "InjectDLL" THEN "CloseFree" ELSE "exit"
    /\ UNCHANGED <<variant, thunkAddr, markerAddr, dwFunctionSize, dwBytesToAlloc,
                   pRemoteAlloc, hRemoteThread, remoteThread, hLSASS, freeCalls, injErr>>
    /\ UNCHANGED <<pLoaderFuncs, remoteMem, lpStartAddress, lpParameter>>
    /\ UNCHANGED thunkVars
    /\ UNCHANGED notInj

\* DumpSvc.c: CloseHandle( hRemoteThread ); VirtualFreeEx( ... ) in the success branch
InjectDLL_CloseFree ==
    /\ variant = "InjectDLL" /\ ipc = "CloseFree"
    /\ hRemoteThread' = "closed"
    /\ pRemoteAlloc' = "freed"
    /\ freeCalls' = freeCalls + 1
    /\ ipc' = "return"
    /\ UNCHANGED <<variant, thunkAddr, markerAddr, dwFunctionSize, dwBytesToAlloc,
                   remoteThread, hLSASS, injErr>>
    /\ UNCHANGED <<pLoaderFuncs, remoteMem, lpStartAddress, lpParameter>>
    /\ UNCHANGED thunkVars
    /\ UNCHANGED notInj

\* lsadump2.c: exit: if (hRemoteThread) CloseHandle; VirtualFreeEx( ... )
InjectDll_Exit ==
    /\ variant = "InjectDll" /\ ipc = "exit"
    /\ hRemoteThread' = IF hRemoteThread = "open" THEN "closed" ELSE hRemoteThread
    /\ pRemoteAlloc' = "freed"
    /\ freeCalls' = freeCalls + 1
    /\ ipc' = "return"
    /\ UNCHANGED <<variant, thunkAddr, markerAddr, dwFunctionSize, dwBytesToAlloc,
                   remoteThread, hLSASS, injErr>>
    /\ UNCHANGED <<pLoaderFuncs, remoteMem, lpStartAddress, lpParameter>>
    /\ UNCHANGED thunkVars
    /\ UNCHANGED notInj

InjNext ==
    \/ InjectDLL_OpenProcess
    \/ InjectDLL_GetProcAddress
    \/ InjectDll_GetProcAddress
    \/ Inject_Size
    \/ Inject_VirtualAllocEx
    \/ Inject_WriteArgs
    \/ Inject_WriteThunk
    \/ Inject_CreateRemoteThread
    \/ Thunk_LoadLibrary
    \/ Thunk_GetProcAddress
    \/ Thunk_Call
    \/ Thunk_FreeLibrary
    \/ RemoteThreadExit
    \/ Inject_Wait
    \/ InjectDLL_CloseFree
    \/ InjectDll_Exit

InjIdle ==
    /\ variant = "none" /\ ipc = "idle"
    /\ thunkAddr = DZero /\ markerAddr = DZero
    /\ dwFunctionSize = DZero /\ dwBytesToAlloc = DZero
    /\ pRemoteAlloc = "null" /\ hRemoteThread = "null" /\ remoteThread = "none"
    /\ hLSASS = "null" /\ freeCalls = 0 /\ injErr = <<>>
    /\ pLoaderFuncs = "unset" /\ remoteMem = <<>>
    /\ lpStartAddress = 0 - 1 /\ lpParameter = 0 - 1
    /\ tpc = "LoadLibrary" /\ hDumpExt = "null" /\ pDumpLSAInfo = "unset"
    /\ thunkCalls = <<>> /\ thunkRc = 0 - 1

----------------------------------------------------------------------------
\* Host fan-out: main and ThreadedSub of PWDumpX.c

\* #define MAX_THREADS 64
MAX_THREADS == 64

\* Host lists longer than the cap that are tried: cap + 1 .. cap + ExtraTargets
ExtraTargets == 1

\* At most MaxBeginFailures calls of _beginthread fail to start a thread
MaxBeginFailures == 1

TargetListLengths ==
    {0, 1, MAX_THREADS} \cup ((MAX_THREADS + 1) .. (MAX_THREADS + ExtraTargets))

\* while ( nThreads >= MAX_THREADS ) Sleep( 200 );
SpinWhileOffByOne(n) == n > MAX_THREADS

SpinWhile(n) == n >= MAX_THREADS

OrchInit ==
    /\ inputIsFile \in BOOLEAN
    /\ unread \in (IF inputIsFile THEN TargetListLengths ELSE {0})
    /\ mpc = IF inputIsFile THEN "fscanf" ELSE "HeapAlloc"
    /\ nThreads = 0
    /\ hSemaphore = 1
    /\ tRun = 0 /\ tWait = 0 /\ tDec = 0 /\ tRelease = 0 /\ tFailed = 0

OrchIdle ==
    /\ inputIsFile = FALSE /\ unread = 0 /\ mpc = "idle"
    /\ nThreads = 0 /\ hSemaphore = 1
    /\ tRun = 0 /\ tWait = 0 /\ tDec = 0 /\ tRelease = 0 /\ tFailed = 0

\* while ( fscanf( pInputFile, "%s", szReadLine ) != EOF ); after the loop
\* fclose, Sleep( 1000 ) and the wait for nThreads to reach 0
Main_fscanf ==
    /\ mpc = "fscanf"
    /\ IF unread > 0
       THEN unread' = unread - 1 /\ mpc' = "spin"
       ELSE unread' = unread /\ mpc' = "drain"
    /\ UNCHANGED <<inputIsFile, nThreads, hSemaphore, tRun, tWait, tDec, tRelease, tFailed>>
    /\ UNCHANGED notOrch

\* while ( nThreads >= MAX_THREADS ) { Sleep( 200 ); } is left
Main_Spin ==
    /\ mpc = "spin"
    /\ ~SpinWhile(nThreads)
    /\ mpc' = "HeapAlloc"
    /\ UNCHANGED <<inputIsFile, unread, nThreads, hSemaphore, tRun, tWait, tDec, tRelease, tFailed>>
    /\ UNCHANGED notOrch

\* pThreadArgs = HeapAlloc( ... ); NULL skips the host
Main_HeapAlloc ==
    /\ mpc = "HeapAlloc"
    /\ \E ok \in BOOLEAN :
         mpc' = IF ok THEN "WaitSem" ELSE IF inputIsFile THEN "fscanf" ELSE "drain"
    /\ UNCHANGED <<inputIsFile, unread, nThreads, hSemaphore, tRun, tWait, tDec, tRelease, tFailed>>
    /\ UNCHANGED notOrch

\* WaitForSingleObject( hSemaphore, INFINITE )
Main_WaitSem ==
    /\ mpc = "WaitSem"
    /\ hSemaphore = 1
    /\ hSemaphore' = 0
    /\ mpc' = "Inc"
    /\ UNCHANGED <<inputIsFile, unread, nThreads, tRun, tWait, tDec, tRelease, tFailed>>
    /\ UNCHANGED notOrch

\* nThreads++
Main_Inc ==
    /\ mpc = "Inc"
    /\ nThreads' = nThreads + 1
    /\ mpc' = "Release"
    /\ UNCHANGED <<inputIsFile, unread, hSemaphore, tRun, tWait, tDec, tRelease, tFailed>>
    /\ UNCHANGED notOrch

\* ReleaseSemaphore( hSemaphore, 1, NULL )
Main_Release ==
    /\ mpc = "Release"
    /\ hSemaphore' = 1
    /\ mpc' = "beginthread"
    /\ UNCHANGED <<inputIsFile, unread, nThreads, tRun, tWait, tDec, tRelease, tFailed>>
    /\ UNCHANGED notOrch

\* _beginthread( ThreadedSub, 0, pThreadArgs ); its result is not tested
Main_beginthread ==
    /\ mpc = "beginthread"
    /\ \E ok \in (IF tFailed < MaxBeginFailures THEN BOOLEAN ELSE {TRUE}) :
         /\ tRun' = IF ok THEN tRun + 1 ELSE tRun
         /\ tFailed' = IF ok THEN tFailed ELSE tFailed + 1
    /\ mpc' = IF inputIsFile THEN "fscanf" ELSE "drain"
    /\ UNCHANGED <<inputIsFile, unread, nThreads, hSemaphore, tWait, tDec, tRelease>>
    /\ UNCHANGED notOrch

\* while ( nThreads > 0 ) { Sleep( 200 ); } is left; CloseHandle( hSemaphore )
Main_Drain ==
    /\ mpc = "drain"
    /\ ~(nThreads > 0)
    /\ mpc' = "exit"
    /\ UNCHANGED <<inputIsFile, unread, nThreads, hSemaphore, tRun, tWait, tDec, tRelease, tFailed>>
    /\ UNCHANGED notOrch

\* ThreadedSub: the host run (Connect, RunPWDumpX, Disconnect) ends
ThreadedSub_HostRun ==
    /\ tRun > 0
    /\ tRun' = tRun - 1
    /\ tWait' = tWait + 1
    /\ UNCHANGED <<inputIsFile, unread, mpc, nThreads, hSemaphore, tDec, tRelease, tFailed>>
    /\ UNCHANGED notOrch

\* The same without the wait for the semaphore to be free
ThreadedSub_NoWaitSem ==
    /\ tWait > 0
    /\ hSemaphore' = 0
    /\ tWait' = tWait - 1
    /\ tDec' = tDec + 1
    /\ UNCHANGED <<inputIsFile, unread, mpc, nThreads, tRun, tRelease, tFailed>>
    /\ UNCHANGED notOrch

\* ThreadedSub: WaitForSingleObject( hSemaphore, INFINITE )
ThreadedSub_WaitSem ==
    /\ tWait > 0
    /\ hSemaphore = 1
    /\ hSemaphore' = 0
    /\ tWait' = tWait - 1
    /\ tDec' = tDec + 1
    /\ UNCHANGED <<inputIsFile, unread, mpc, nThreads, tRun, tRelease, tFailed>>
    /\ UNCHANGED notOrch

\* ThreadedSub: nThreads--
ThreadedSub_Dec ==
    /\ tDec > 0
    /\ nThreads' = nThreads - 1
    /\ tDec' = tDec - 1
    /\ tRelease' = tRelease + 1
    /\ UNCHANGED <<inputIsFile, unread, mpc, hSemaphore, tRun, tWait, tFailed>>
    /\ UNCHANGED notOrch

\* ThreadedSub: ReleaseSemaphore( hSemaphore, 1, NULL ); _endthread()
ThreadedSub_Release ==
    /\ tRelease > 0
    /\ hSemaphore' = 1
    /\ tRelease' = tRelease - 1
    /\ UNCHANGED <<inputIsFile, unread, mpc, nThreads, tRun, tWait, tDec, tFailed>>
    /\ UNCHANGED notOrch

OrchNext ==
    \/ Main_fscanf
    \/ Main_Spin
    \/ Main_HeapAlloc
    \/ Main_WaitSem
    \/ Main_Inc
    \/ Main_Release
    \/ Main_beginthread
    \/ Main_Drain
    \/ ThreadedSub_HostRun
    \/ ThreadedSub_WaitSem
    \/ ThreadedSub_Dec
    \/ ThreadedSub_Release

----------------------------------------------------------------------------
\* Cache records: the NL$i loop of DumpPWCache (DumpExt.c)

\* BYTE bCacheVal[ 4096 ]; dwSize = 4096 before each query
BufSize == 4096

\* memset( k_ipad, 0x36, 64 ), memset( k_opad, 0x5c, 64 )
Ipad == 54

Opad == 92

\* Values NL$1 .. NL$MaxCacheEntries may exist in the registry
MaxCacheEntries == 3

RECURSIVE XorBits(_, _, _)
XorBits(a, b, n) ==
    IF n = 0 THEN 0
    ELSE ((a + b) % 2) + 2 * XorBits(a \div 2, b \div 2, n - 1)

\* a ^ b on two BYTEs
Xor(a, b) == XorBits(a, b, 8)

\* An array of n BYTEs is the sequence of its elements: element x of the
\* array is element x + 1 of the sequence.
At(buf, x) == buf[x + 1]

\* The bytes buf[from], ..., buf[from + len - 1]
Slice(buf, from, len) == SubSeq(buf, from + 1, from + len)

\* The same sequence, evaluated once (TLC otherwise re-evaluates a sequence
\* given by a rule at each use)
Eval(s) == s \o <<>>

\* F(e), with e evaluated once (TLC otherwise re-evaluates an argument at
\* each of its uses)
Bind(e, F(_)) == CHOOSE y \in {F(x) : x \in {e}} : TRUE

\* The sum over j in lo .. hi of data[j] * (i + j), modulo 256
RECURSIVE Md5Mix(_, _, _, _)
Md5Mix(data, i, lo, hi) ==
    IF lo > hi THEN 0
    ELSE IF lo = hi THEN (data[lo] * (i + lo)) % 256
    ELSE LET mid == (lo + hi) \div 2
         IN  (Md5Mix(data, i, lo, mid) + Md5Mix(data, i, mid + 1, hi)) % 256

\* md5_starts / md5_update / md5_finish (md5.c): a 16-byte digest of the data.
\* md5.c is not among the sources; the digest is a stand-in that depends on
\* every input byte and its position.
\* Byte i is the sum of data[j] * (i + j), plus Len(data) + 31 * i, modulo 256.
Md5(data) ==
    Bind(<<Md5Mix(data, 0, 1, Len(data)), Md5Mix(data, 1, 1, Len(data)), Len(data)>>,
         LAMBDA s :
           Eval([i \in 1 .. 16 |->
                   (s[1] + i * ((s[2] - s[1] + 256) % 256) + s[3] + 31 * i) % 256]))

\* The keystream byte t of rc4_setup( key, 16 ) (rc4.c, a stand-in likewise)
Rc4KeyStream(key, t) ==
    (At(key, t % 16) + 13 * At(key, (5 * t + 1) % 16) + 7 * t) % 256

\* The same on data rather than on data + from
Rc4CryptFromStart(key, buf, from, length) ==
    IF length <= 0 THEN buf
    ELSE Bind(<<key, buf>>, LAMBDA kb :
           [k \in 1 .. length |-> Xor(kb[2][k], Rc4KeyStream(kb[1], k - 1))]
           \o SubSeq(kb[2], length + 1, Len(kb[2])))

\* rc4_crypt( &rc4State, data + from, length ): XOR with the keystream, in
\* place.  length is an int: a negative length crypts nothing.
Rc4Crypt(key, buf, from, length) ==
    IF length <= 0 THEN buf
    ELSE Bind(<<key, buf>>, LAMBDA kb :
           SubSeq(kb[2], 1, from)
           \o [k \in 1 .. length |->
                  Xor(At(kb[2], from + k - 1), Rc4KeyStream(kb[1], k - 1))]
           \o SubSeq(kb[2], from + length + 1, Len(kb[2])))

\* pLsaKey: the 64 bytes of the NL$KM secret of host kid
LsaKey(kid) == Eval([j \in 1 .. 64 |-> (kid * 37 + (j - 1) * 11 + 5) % 256])

\* bKey1[j] = pLsaKey[j] ^ k_ipad[j]; bKey2[j] = pLsaKey[j] ^ k_opad[j]
KeyPad(key, pad) == Bind(key, LAMBDA k : Eval([j \in 1 .. 64 |-> Xor(k[j], pad)]))

\* The two md5 passes: bDigest = MD5( bKey2 || MD5( bKey1 || bCacheVal[64..79] ) )
SessionKey(key, buf) ==
    LET inner == Md5(KeyPad(key, Ipad) \o Slice(buf, 64, 16))
    IN  Md5(KeyPad(key, Opad) \o inner)

\* dwJoke[0] = 2 * ( ( dwUsername / 2 ) % 2 ), dwJoke[1] likewise for dwDomain
JokeNoPad(len) == 0

Joke(len) == 2 * ((len \div 2) % 2)

\* for ( j = 0; j < len; j = j + 2 ) sz[k++] = bCacheVal[base + j]
ExtractText(buf, base, len) ==
    Bind(buf, LAMBDA b :
        Eval([k \in 1 .. ((len + 1) \div 2) |-> At(b, base + 2 * (k - 1))]))

\* Offset of the domain and of the DNS domain in bCacheVal
DomainBaseUnpadded(u) == 168 + u

DomainBase(u) == 168 + u + Joke(u)

DnsBase(u, d) == 168 + u + Joke(u) + d + Joke(d)

RECURSIVE CStringLen(_, _)
CStringLen(s, k) ==
    IF k > Len(s) \/ s[k] = 0 THEN k - 1 ELSE CStringLen(s, k + 1)

\* What fprintf( "%s" ) prints of a char array: the bytes before its first 0
CString(s) == Bind(s, LAMBDA a : SubSeq(a, 1, CStringLen(a, 1)))

\* RegQueryValueEx( hKeyCaches, szCacheKey, ..., bCacheVal, &dwSize ) returning
\* ERROR_SUCCESS: the value's bytes are copied and the rest is left as it was
RegQueryValueEx(buf, value) == value \o SubSeq(buf, Len(value) + 1, Len(buf))

Max(S) == CHOOSE m \in S : \A x \in S : x <= m

\* The offsets j of for ( j = 0; j < len; j = j + 2 )
EvenBelow(len) == {2 * k : k \in 0 .. ((len + 1) \div 2) - 1}

\* The indices of bCacheVal the decode of one value reads
DecodeReads(u, d, n) ==
    {0, 2, 60} \cup (64 .. 79) \cup (96 .. 111)
        \cup {168 + j : j \in EvenBelow(u)}
        \cup {DomainBase(u) + j : j \in EvenBelow(d)}
        \cup {DnsBase(u, d) + j : j \in EvenBelow(n)}

\* The body of the for loop for one value that RegQueryValueEx returned:
\* the buffer afterwards, the line appended (or none), the number of bytes
\* rc4_crypt was applied to and the highest index of bCacheVal read.
DecodeValue(buf0, key, value) ==
    Bind(RegQueryValueEx(buf0, value), LAMBDA buf1 :
      LET dwSize == Len(value)
          dwUsername == At(buf1, 0)
          dwDomain == At(buf1, 2)
          dwDNSDomain == At(buf1, 60)
      IN  IF dwSize = 0
          THEN [buf |-> buf1, emitted |-> FALSE, line |-> <<>>, crypted |-> 0,
                maxRead |-> 0 - 1]
          ELSE IF dwUsername = 0
          THEN [buf |-> buf1, emitted |-> FALSE, line |-> <<>>, crypted |-> 0,
                maxRead |-> 60]
          ELSE
            Bind(Rc4Crypt(SessionKey(key, buf1), buf1, 96, dwSize - 96), LAMBDA buf2 :
              [buf |-> buf2,
               emitted |-> TRUE,
               line |-> [username |-> CString(ExtractText(buf2, 168, dwUsername)),
                         verifier |-> Slice(buf2, 96, 16),
                         domain |-> CString(ExtractText(buf2, DomainBase(dwUsername), dwDomain)),
                         dns |-> CString(ExtractText(buf2, DnsBase(dwUsername, dwDomain), dwDNSDomain))],
               crypted |-> IF dwSize > 96 THEN dwSize - 96 ELSE 0,
               maxRead |-> Max(DecodeReads(dwUsername, dwDomain, dwDNSDomain))]))

\* ---- the registry values the model presents

\* Character codes stored from offset 168 on, one per two bytes
CacheText(t) ==
    IF t = 1 THEN <<65, 66, 67, 68, 88, 89, 90, 87, 78, 79, 80, 81, 82, 83, 84, 85>>
             ELSE <<65, 0, 67, 68, 88, 89, 90, 87, 78, 79, 80, 81, 82, 83, 84, 85>>

\* The plaintext byte at offset x of the record described by c
PlainByte(c, x) ==
    IF x = 0 THEN c.u
    ELSE IF x = 2 THEN c.d
    ELSE IF x = 60 THEN c.n
    ELSE IF x >= 64 /\ x < 80 THEN (3 * x + c.text) % 256
    ELSE IF x >= 96 /\ x < 112 THEN (x + 16 * c.text) % 256
    ELSE IF x >= 168 /\ (x - 168) % 2 = 0 /\ (x - 168) \div 2 < 16
         THEN CacheText(c.text)[(x - 168) \div 2 + 1]
    ELSE 0

CacheValues ==
    { [size |-> 200, u |-> 8, d |-> 4, n |-> 0, text |-> 1],
      [size |-> 200, u |-> 6, d |-> 6, n |-> 4, text |-> 1],
      [size |-> 200, u |-> 8, d |-> 4, n |-> 0, text |-> 2],
      [size |-> 200, u |-> 0, d |-> 4, n |-> 0, text |-> 1],
      [size |-> 172, u |-> 8, d |-> 4, n |-> 0, text |-> 1],
      [size |-> 50,  u |-> 8, d |-> 4, n |-> 0, text |-> 1],
      [size |-> 0,   u |-> 0, d |-> 0, n |-> 0, text |-> 1] }

\* The value as the host stored it: bytes from offset 96 on are encrypted
\* under the session key of the record's own bytes 64..79
StoredValue(kid, c) ==
    LET plain == Eval([k \in 1 .. 256 |-> PlainByte(c, k - 1)])
        sk == SessionKey(LsaKey(kid), plain)
    IN  SubSeq(Rc4Crypt(sk, plain, 96, 160), 1, c.size)

KeyIds == {1, 2}

\* The stored values, computed once
Registry == [kid \in KeyIds |-> [c \in CacheValues |-> StoredValue(kid, c)]]

LsaKeys == [kid \in KeyIds |-> LsaKey(kid)]

\* What the uninitialised stack array bCacheVal may hold on entry
StackFill == {0, 204}

CacheInit ==
    /\ cpc = "loop"
    /\ ci = 1
    /\ keyId \in KeyIds
    /\ bCacheVal \in {[k \in 1 .. BufSize |-> f] : f \in StackFill}
    /\ cacheOut = <<>>
    /\ cacheHist = <<>>

CacheIdle ==
    /\ cpc = "idle" /\ ci = 0 /\ keyId = 0
    /\ bCacheVal = <<>> /\ cacheOut = <<>> /\ cacheHist = <<>>

\* for ( i = 1; TRUE; i++ ): the index of the next value NL$i
NextCacheIndexSkipsOne(i) == i + 2

NextCacheIndex(i) == i + 1

\* One pass of for ( i = 1; TRUE; i++ ) in which NL$i exists.  The output file
\* PWCache.txt is taken to open.
DumpPWCache_Value ==
    /\ cpc = "loop"
    /\ ci <= MaxCacheEntries
    /\ \E c \in CacheValues :
         \E r \in {DecodeValue(bCacheVal, LsaKeys[keyId], Registry[keyId][c])} :
             /\ bCacheVal' = r.buf
             /\ cacheOut' = IF r.emitted THEN Append(cacheOut, r.line) ELSE cacheOut
             /\ cacheHist' = Append(cacheHist,
                    [i |-> ci, value |-> c, emitted |-> r.emitted, line |-> r.line,
                     crypted |-> r.crypted, maxRead |-> r.maxRead])
    /\ ci' = NextCacheIndex(ci)
    /\ UNCHANGED <<cpc, keyId>>
    /\ UNCHANGED notCache

\* RegQueryValueEx does not return ERROR_SUCCESS (NL$i is absent, or larger
\* than the buffer): break, RegCloseKey
DumpPWCache_Break ==
    /\ cpc = "loop"
    /\ cpc' = "done"
    /\ UNCHANGED <<ci, keyId, bCacheVal, cacheOut, cacheHist>>
    /\ UNCHANGED notCache

CacheNext ==
    \/ DumpPWCache_Value
    \/ DumpPWCache_Break

----------------------------------------------------------------------------
\* Accounts: DumpPWHashes and DumpPWHistoryHashes (DumpExt.c)

\* if ( nEnumStatus == 0 || nEnumStatus == 0x105 ), while ( nEnumStatus == 0x105 )
STATUS_MORE_ENTRIES == 261

\* The domain is enumerated in at most MaxPages calls
MaxPages == 2

\* The account store holds at most MaxUsers accounts
MaxUsers == 3

\* Statuses SamrEnumerateUsersInDomain returns: success, more entries, and an
\* error (STATUS_ACCESS_DENIED as an NTSTATUS)
EnumStatuses == {0, STATUS_MORE_ENTRIES, 0 - 1073741790}

\* The Rid of the first entry of the account store; entry number c of the
\* store has the Rid FirstRid + c
FirstRid == 1000

\* sueEnum->Users[i].Rid of a page that starts at entry number cursor
UserRid(cursor, i) == FirstRid + cursor + i

\* &dwEnum as passed to the enumerate call: the variable set before the loop
\* and left to the callee afterwards
EnumCursorRestarts(cur) == 0

EnumCursor(cur) == cur

\* if ( nEnumStatus == 0 || nEnumStatus == 0x105 ): the page is processed
EnumReturnedPage(st) == st = 0 \/ st = STATUS_MORE_ENTRIES

\* while ( nEnumStatus == 0x105 )
EnumMore(st) == st = STATUS_MORE_ENTRIES

\* Sizes of the blob SamIGetPrivateData returns
BlobSizes == {40, 60, 61, 140, 200}

\* Values of the blob's byte at offset 0x3C
CountBytes == {0, 16, 32, 255}

\* if ( nStatus >= 0 && dwSize > 0x3c ), for a call that succeeded
HasHistory(size) == size > 60

\* dwHashes = blob[SAM_HISTORY_COUNT_OFFSET] / 16
HistoryCountPlusOne(cb) == cb \div 16 + 1

HistoryCount(cb) == cb \div 16

\* if ( ( dwHashes > 0 ) && ( dwSize > ( dwOffset + 0x64 ) ) )
HistoryFits(size, hashes, offset) == hashes > 0 /\ size > offset + 100

\* pHashDataHistory in pass j of the slot loop, as an offset into the blob:
\* pHashDataHistory = pHashData, then pHashDataHistory += 0x10 in each pass
HistorySlotBaseFromZero(j) == 16 * (j - 1)

HistorySlotBase(j) == 16 * j

\* What pSystemFunction025 / pSystemFunction027 write for the 16 bytes of
\* ciphertext at offset at of the blob and the Rid given
Decode(at, rid) == [at |-> at, rid |-> rid]

\* HashData after the two calls of pass j: pSystemFunction025 writes bytes
\* 0..15 (pCurrentHashData) from the ciphertext at pHashDataHistory + 0x44,
\* pSystemFunction027 writes bytes 16..31 (pCurrentHashData + 16) from the
\* ciphertext at pHashDataHistory + 0x44 + dwOffset
HistoryHashData(j, offset, rid) ==
    [lo |-> Decode(HistorySlotBase(j) + 68, rid),
     hi |-> Decode(HistorySlotBase(j) + 68 + offset, rid)]

\* "%s_hist_%d:%d:%s:%s:::\n" with szUsername, j, Rid, szLMHash, szNTHash:
\* szLMHash is made of bHashData[16..31], szNTHash of bHashData[0..15]
HistoryLine(j, rid, hashData) ==
    [hist |-> j, rid |-> rid, lm |-> hashData.hi, nt |-> hashData.lo]

\* "%s:%d:%s:%s:::\n" with szUsername, Rid, szLMHash, szNTHash for the 32 bytes
\* of the hash info buffer
CurrentLineAsFirstHistoryEntry(rid) ==
    [hist |-> 1, rid |-> rid, lm |-> [at |-> 16, rid |-> 0], nt |-> [at |-> 0, rid |-> 0]]

CurrentLine(rid) ==
    [hist |-> 0, rid |-> rid, lm |-> [at |-> 16, rid |-> 0], nt |-> [at |-> 0, rid |-> 0]]

\* The kinds of handle and buffer the account-manager interface hands out
HandleKinds == {"sam", "domain", "user"}

BufferKinds == {"enum", "info", "blob"}

\* What a call on a handle or buffer adds to samBad
CloseNote(h) == IF h = "open" THEN {} ELSE {"close of a handle that is not open"}

FreeNote(b) == IF b = "live" THEN {} ELSE {"free of a buffer that is not held"}

UseNote(b) == IF b = "live" THEN {} ELSE {"use of a buffer that is not held"}

\* Where the routine continues when SamrQueryInformationUser fails: the if
\* block is skipped and pSamrCloseHandle( &hUser ) follows
AfterQueryFailureSkipsClose == "NextUser"

AfterQueryFailure == "CloseUser"

SamInit ==
    /\ samRoutine \in {"DumpPWHashes", "DumpPWHistoryHashes"}
    /\ spc = "LoadLibrary"
    /\ hSAMSrv = "null" /\ hAdvapi32 = "null" /\ hLSA = "null" /\ pDomainInfo = "null"
    /\ hSAM = "null" /\ hDomain = "null" /\ hUser = "null"
    /\ sueEnum = "null" /\ pHashData = "null"
    /\ nEnumStatus = 0 /\ dwEnumCalls = 0 /\ dwNumber = 0 /\ si = 0
    /\ dwEnum = 0 /\ sueUsers = <<>> /\ samSeen = <<>>
    /\ dwPrivSize = 0 /\ dwHashes = 0 /\ dwOffset = 0 /\ sj = 0
    /\ samOpens = [k \in HandleKinds \cup BufferKinds |-> 0]
    /\ samCloses = [k \in HandleKinds \cup BufferKinds |-> 0]
    /\ samBad = {}
    /\ samOut = <<>>
    /\ samFail = {}
    /\ samErr = <<>>

SamIdle ==
    /\ samRoutine = "none"
    /\ spc = "idle"
    /\ hSAMSrv = "null" /\ hAdvapi32 = "null" /\ hLSA = "null" /\ pDomainInfo = "null"
    /\ hSAM = "null" /\ hDomain = "null" /\ hUser = "null"
    /\ sueEnum = "null" /\ pHashData = "null"
    /\ nEnumStatus = 0 /\ dwEnumCalls = 0 /\ dwNumber = 0 /\ si = 0
    /\ dwEnum = 0 /\ sueUsers = <<>> /\ samSeen = <<>>
    /\ dwPrivSize = 0 /\ dwHashes = 0 /\ dwOffset = 0 /\ sj = 0
    /\ samOpens = [k \in HandleKinds \cup BufferKinds |-> 0]
    /\ samCloses = [k \in HandleKinds \cup BufferKinds |-> 0]
    /\ samBad = {}
    /\ samOut = <<>>
    /\ samFail = {}
    /\ samErr = <<>>

\* LoadLibrary of samsrv.dll (and advapi32.dll), GetProcAddress of the interface
\* functions and the test that all of them resolved
Sam_LoadLibrary ==
    /\ spc = "LoadLibrary"
    /\ \E lib \in BOOLEAN, adv \in BOOLEAN, fn \in BOOLEAN :
         /\ (samRoutine = "DumpPWHashes" => ~adv)
         /\ hSAMSrv' = IF lib THEN "loaded" ELSE "null"
         /\ hAdvapi32' = IF adv THEN "loaded" ELSE "null"
         /\ IF lib /\ fn /\ (samRoutine = "DumpPWHistoryHashes" => adv)
            THEN spc' = "LsaOpenPolicy" /\ samErr' = samErr
            ELSE spc' = "return"
                 /\ samErr' = Append(samErr, "Cannot load SAM functions on remote host")
    /\ UNCHANGED <<samRoutine, hLSA, pDomainInfo, hSAM, hDomain, hUser, sueEnum,
                   pHashData, nEnumStatus, dwEnumCalls, dwNumber, si, dwPrivSize,
                   dwHashes, dwOffset, sj, samOpens, samCloses, samBad, samOut>>
    /\ UNCHANGED <<dwEnum, sueUsers, samSeen, samFail>>
    /\ UNCHANGED notSam

\* nStatus = LsaOpenPolicy( ..., &hLSA )
Sam_LsaOpenPolicy ==
    /\ spc = "LsaOpenPolicy"
    /\ \E ok \in BOOLEAN :
         IF ok
         THEN hLSA' = "open" /\ spc' = "LsaQueryInformationPolicy" /\ samErr' = samErr
         ELSE hLSA' = "null" /\ spc' = "FreeLibrary"
              /\ samErr' = Append(samErr, "Cannot open LSA policy on remote host")
    /\ UNCHANGED <<samRoutine, hSAMSrv, hAdvapi32, pDomainInfo, hSAM, hDomain, hUser,
                   sueEnum, pHashData, nEnumStatus, dwEnumCalls, dwNumber, si,
                   dwPrivSize, dwHashes, dwOffset, sj, samOpens, samCloses, samBad,
                   samOut>>
    /\ UNCHANGED <<dwEnum, sueUsers, samSeen, samFail>>
    /\ UNCHANGED notSam

\* nStatus = LsaQueryInformationPolicy( hLSA, ..., &pDomainInfo )
Sam_LsaQueryInformationPolicy ==
    /\ spc = "LsaQueryInformationPolicy"
    /\ \E ok \in BOOLEAN :
         IF ok
         THEN pDomainInfo' = "live" /\ spc' = "SamIConnect" /\ samErr' = samErr
         ELSE pDomainInfo' = "null" /\ spc' = "LsaClose"
              /\ samErr' = Append(samErr,
                     "Cannot query LSA information policy on remote host")
    /\ UNCHANGED <<samRoutine, hSAMSrv, hAdvapi32, hLSA, hSAM, hDomain, hUser, sueEnum,
                   pHashData, nEnumStatus, dwEnumCalls, dwNumber, si, dwPrivSize,
                   dwHashes, dwOffset, sj, samOpens, samCloses, samBad, samOut>>
    /\ UNCHANGED <<dwEnum, sueUsers, samSeen, samFail>>
    /\ UNCHANGED notSam

\* nStatus = pSamIConnect( 0, &hSAM, MAXIMUM_ALLOWED, 1 )
Sam_SamIConnect ==
    /\ spc = "SamIConnect"
    /\ \E ok \in BOOLEAN :
         IF ok
         THEN /\ hSAM' = "open" /\ samOpens' = [samOpens EXCEPT !["sam"] = @ + 1]
              /\ spc' = "SamrOpenDomain" /\ samErr' = samErr
         ELSE /\ hSAM' = "null" /\ samOpens' = samOpens
              /\ spc' = "LsaFreeMemory"
              /\ samErr' = Append(samErr, "Cannot connect to SAM on remote host")
    /\ UNCHANGED <<samRoutine, hSAMSrv, hAdvapi32, hLSA, pDomainInfo, hDomain, hUser,
                   sueEnum, pHashData, nEnumStatus, dwEnumCalls, dwNumber, si,
                   dwPrivSize, dwHashes, dwOffset, sj, samCloses, samBad, samOut>>
    /\ UNCHANGED <<dwEnum, sueUsers, samSeen, samFail>>
    /\ UNCHANGED notSam

\* nStatus = pSamrOpenDomain( hSAM, 0xf07ff, pDomainInfo->DomainSid, &hDomain );
\* dwEnum = 0
Sam_SamrOpenDomain ==
    /\ spc = "SamrOpenDomain"
    /\ samBad' = samBad \cup UseNote(pDomainInfo)
    /\ \E ok \in BOOLEAN :
         IF ok
         THEN /\ hDomain' = "open" /\ samOpens' = [samOpens EXCEPT !["domain"] = @ + 1]
              /\ dwEnum' = 0
              /\ spc' = "Enumerate" /\ samErr' = samErr
         ELSE /\ hDomain' = "null" /\ samOpens' = samOpens
              /\ dwEnum' = dwEnum
              /\ spc' = "CloseSAM"
              /\ samErr' = Append(samErr, "Cannot open SAM on remote host")
    /\ UNCHANGED <<samRoutine, hSAMSrv, hAdvapi32, hLSA, pDomainInfo, hSAM, hUser,
                   sueEnum, pHashData, nEnumStatus, dwEnumCalls, dwNumber, si,
                   dwPrivSize, dwHashes, dwOffset, sj, samCloses, samOut>>
    /\ UNCHANGED <<sueUsers, samSeen, samFail>>
    /\ UNCHANGED notSam

\* sueEnum = NULL; nEnumStatus = pSamrEnumerateUsersInDomain( hDomain, &dwEnum, 0,
\* &sueEnum, 1000, &dwNumber ); i = 0.  The account store answers at most MaxPages
\* calls and its last answer is not "more entries"; with a status of success or
\* "more entries" it hands out a page of n of its remaining entries, starting at
\* the cursor passed in, and advances the cursor by n.
Sam_Enumerate ==
    /\ spc = "Enumerate"
    /\ dwEnumCalls < MaxPages
    /\ \E st \in EnumStatuses, n \in 0 .. MaxUsers - dwEnum :
         /\ (st = STATUS_MORE_ENTRIES => dwEnumCalls + 1 < MaxPages)
         /\ nEnumStatus' = st
         /\ dwEnumCalls' = dwEnumCalls + 1
         /\ IF st = 0 \/ st = STATUS_MORE_ENTRIES
            THEN /\ sueEnum' = "live" /\ samOpens' = [samOpens EXCEPT !["enum"] = @ + 1]
                 /\ sueUsers' = [k \in 1 .. n |-> UserRid(EnumCursor(dwEnum), k - 1)]
                 /\ dwEnum' = EnumCursor(dwEnum) + n
                 /\ dwNumber' = n
            ELSE /\ n = 0
                 /\ sueEnum' = "null" /\ samOpens' = samOpens
                 /\ sueUsers' = sueUsers
                 /\ dwEnum' = EnumCursor(dwEnum)
                 /\ dwNumber' = dwNumber
         /\ IF EnumReturnedPage(st)
            THEN si' = 0 /\ spc' = "ForUser"
            ELSE si' = si /\ spc' = "While"
    /\ UNCHANGED <<samRoutine, hSAMSrv, hAdvapi32, hLSA, pDomainInfo, hSAM, hDomain,
                   hUser, pHashData, dwPrivSize, dwHashes, dwOffset, sj, samCloses,
                   samBad, samOut, samErr>>
    /\ UNCHANGED <<samSeen, samFail>>
    /\ UNCHANGED notSam

\* for ( ...; i < dwNumber; ... ): hUser = 0, or the loop ends
Sam_ForUser ==
    /\ spc = "ForUser"
    /\ IF si < dwNumber
       THEN hUser' = "null" /\ samOut' = <<>> /\ samFail' = {} /\ spc' = "SamrOpenUser"
       ELSE hUser' = hUser /\ samOut' = samOut /\ samFail' = samFail /\ spc' = "FreeEnum"
    /\ UNCHANGED <<samRoutine, hSAMSrv, hAdvapi32, hLSA, pDomainInfo, hSAM, hDomain,
                   sueEnum, pHashData, nEnumStatus, dwEnumCalls, dwNumber, si,
                   dwPrivSize, dwHashes, dwOffset, sj, samOpens, samCloses, samBad,
                   samErr>>
    /\ UNCHANGED <<dwEnum, sueUsers, samSeen>>
    /\ UNCHANGED notSam

\* nStatus = pSamrOpenUser( hDomain, MAXIMUM_ALLOWED, sueEnum->Users[i].Rid, &hUser )
Sam_SamrOpenUser ==
    /\ spc = "SamrOpenUser"
    /\ samBad' = samBad \cup UseNote(sueEnum)
    /\ samSeen' = Append(samSeen, sueUsers[si + 1])
    /\ \E ok \in BOOLEAN :
         IF ok
         THEN /\ hUser' = "open" /\ samOpens' = [samOpens EXCEPT !["user"] = @ + 1]
              /\ samFail' = samFail
              /\ spc' = "SamrQueryInformationUser"
         ELSE /\ hUser' = "null" /\ samOpens' = samOpens
              /\ samFail' = samFail \cup {"SamrOpenUser"}
              /\ spc' = "NextUser"
    /\ UNCHANGED <<samRoutine, hSAMSrv, hAdvapi32, hLSA, pDomainInfo, hSAM, hDomain,
                   sueEnum, pHashData, nEnumStatus, dwEnumCalls, dwNumber, si,
                   dwPrivSize, dwHashes, dwOffset, sj, samCloses, samOut, samErr>>
    /\ UNCHANGED <<dwEnum, sueUsers>>
    /\ UNCHANGED notSam

\* pHashData = NULL; nStatus = pSamrQueryInformationUser( hUser,
\* SAM_USER_INFO_PASSWORD_OWFS, &pHashData )
Sam_SamrQueryInformationUser ==
    /\ spc = "SamrQueryInformationUser"
    /\ \E ok \in BOOLEAN :
         IF ok
         THEN /\ pHashData' = "live" /\ samOpens' = [samOpens EXCEPT !["info"] = @ + 1]
              /\ samFail' = samFail
              /\ spc' = "Emit"
         ELSE /\ pHashData' = "null" /\ samOpens' = samOpens
              /\ samFail' = samFail \cup {"SamrQueryInformationUser"}
              /\ spc' = AfterQueryFailure
    /\ UNCHANGED <<samRoutine, hSAMSrv, hAdvapi32, hLSA, pDomainInfo, hSAM, hDomain,
                   hUser, sueEnum, nEnumStatus, dwEnumCalls, dwNumber, si, dwPrivSize,
                   dwHashes, dwOffset, sj, samCloses, samBad, samOut, samErr>>
    /\ UNCHANGED <<dwEnum, sueUsers, samSeen>>
    /\ UNCHANGED notSam

\* The name and the 32 hash bytes are read, the line of the current hashes is
\* appended (the output file is taken to open), and
\* pSamIFree_SAMPR_USER_INFO_BUFFER( pHashData, ... ) follows
Sam_EmitCurrent ==
    /\ spc = "Emit"
    /\ samBad' = samBad \cup UseNote(sueEnum) \cup UseNote(pHashData) \cup FreeNote(pHashData)
    /\ samOut' = Append(samOut, CurrentLine(sueUsers[si + 1]))
    /\ pHashData' = "freed"
    /\ samCloses' = [samCloses EXCEPT !["info"] = @ + 1]
    /\ spc' = IF samRoutine = "DumpPWHistoryHashes" THEN "SamIGetPrivateData"
                                                    ELSE "CloseUser"
    /\ UNCHANGED <<samRoutine, hSAMSrv, hAdvapi32, hLSA, pDomainInfo, hSAM, hDomain,
                   hUser, sueEnum, nEnumStatus, dwEnumCalls, dwNumber, si, dwPrivSize,
                   dwHashes, dwOffset, sj, samOpens, samErr>>
    /\ UNCHANGED <<dwEnum, sueUsers, samSeen, samFail>>
    /\ UNCHANGED notSam

\* pHashData = NULL; dwSize = 0; nStatus = pSamIGetPrivateData( hUser, ..., &dwSize,
\* &pHashData ); the test of nStatus and dwSize, dwHashes, dwOffset and the test
\* before the slot loop
Sam_SamIGetPrivateData ==
    /\ spc = "SamIGetPrivateData"
    /\ \E ok \in BOOLEAN, size \in BlobSizes, cb \in CountBytes :
         IF ok
         THEN /\ pHashData' = "live" /\ samOpens' = [samOpens EXCEPT !["blob"] = @ + 1]
              /\ samFail' = samFail
              /\ dwPrivSize' = size
              /\ IF HasHistory(size)
                 THEN /\ dwHashes' = HistoryCount(cb)
                      /\ dwOffset' = cb
                      /\ IF HistoryFits(size, HistoryCount(cb), cb)
                         THEN sj' = 1 /\ spc' = "HistorySlot"
                         ELSE sj' = sj /\ spc' = "LocalFree"
                 ELSE /\ cb = 0
                      /\ dwHashes' = dwHashes /\ dwOffset' = dwOffset /\ sj' = sj
                      /\ spc' = "CloseUser"
         ELSE /\ size = 40 /\ cb = 0
              /\ pHashData' = "null" /\ samOpens' = samOpens
              /\ samFail' = samFail \cup {"SamIGetPrivateData"}
              /\ dwPrivSize' = 0
              /\ dwHashes' = dwHashes /\ dwOffset' = dwOffset /\ sj' = sj
              /\ spc' = "CloseUser"
    /\ UNCHANGED <<samRoutine, hSAMSrv, hAdvapi32, hLSA, pDomainInfo, hSAM, hDomain,
                   hUser, sueEnum, nEnumStatus, dwEnumCalls, dwNumber, si, samCloses,
                   samBad, samOut, samErr>>
    /\ UNCHANGED <<dwEnum, sueUsers, samSeen>>
    /\ UNCHANGED notSam

\* for ( j = 1; j < ( dwHashes + 1 ); j++ ): pSystemFunction025, pSystemFunction027
\* on slot j of the blob with the entry's Rid, and the history line
Sam_HistorySlot ==
    /\ spc = "HistorySlot"
    /\ IF sj < dwHashes + 1
       THEN \E ok25 \in BOOLEAN, ok27 \in BOOLEAN :
              /\ (~ok25 => ~ok27)
              /\ samBad' = samBad \cup UseNote(pHashData) \cup UseNote(sueEnum)
              /\ samOut' = IF ok25 /\ ok27
                           THEN Append(samOut,
                                    HistoryLine(sj, sueUsers[si + 1],
                                                HistoryHashData(sj, dwOffset, sueUsers[si + 1])))
                           ELSE samOut
              /\ samFail' = IF ok25 /\ ok27 THEN samFail
                            ELSE samFail \cup {"SystemFunction025/027"}
              /\ sj' = sj + 1
              /\ spc' = spc
       ELSE /\ samBad' = samBad /\ samOut' = samOut /\ samFail' = samFail /\ sj' = sj
            /\ spc' = "LocalFree"
    /\ UNCHANGED <<samRoutine, hSAMSrv, hAdvapi32, hLSA, pDomainInfo, hSAM, hDomain,
                   hUser, sueEnum, pHashData, nEnumStatus, dwEnumCalls, dwNumber, si,
                   dwPrivSize, dwHashes, dwOffset, samOpens, samCloses, samErr>>
    /\ UNCHANGED <<dwEnum, sueUsers, samSeen>>
    /\ UNCHANGED notSam

\* LocalFree( pHashData ), inside the block of dwSize > 0x3c
Sam_LocalFree ==
    /\ spc = "LocalFree"
    /\ samBad' = samBad \cup FreeNote(pHashData)
    /\ pHashData' = "freed"
    /\ samCloses' = [samCloses EXCEPT !["blob"] = @ + 1]
    /\ spc' = "CloseUser"
    /\ UNCHANGED <<samRoutine, hSAMSrv, hAdvapi32, hLSA, pDomainInfo, hSAM, hDomain,
                   hUser, sueEnum, nEnumStatus, dwEnumCalls, dwNumber, si, dwPrivSize,
                   dwHashes, dwOffset, sj, samOpens, samOut, samErr>>
    /\ UNCHANGED <<dwEnum, sueUsers, samSeen, samFail>>
    /\ UNCHANGED notSam

\* pSamrCloseHandle( &hUser )
Sam_CloseUser ==
    /\ spc = "CloseUser"
    /\ samBad' = samBad \cup CloseNote(hUser)
    /\ hUser' = "closed"
    /\ samCloses' = [samCloses EXCEPT !["user"] = @ + 1]
    /\ spc' = "NextUser"
    /\ UNCHANGED <<samRoutine, hSAMSrv, hAdvapi32, hLSA, pDomainInfo, hSAM, hDomain,
                   sueEnum, pHashData, nEnumStatus, dwEnumCalls, dwNumber, si,
                   dwPrivSize, dwHashes, dwOffset, sj, samOpens, samOut, samErr>>
    /\ UNCHANGED <<dwEnum, sueUsers, samSeen, samFail>>
    /\ UNCHANGED notSam

\* for ( ...; ...; i++ )
Sam_NextUser ==
    /\ spc = "NextUser"
    /\ si' = si + 1
    /\ spc' = "ForUser"
    /\ UNCHANGED <<samRoutine, hSAMSrv, hAdvapi32, hLSA, pDomainInfo, hSAM, hDomain,
                   hUser, sueEnum, pHashData, nEnumStatus, dwEnumCalls, dwNumber,
                   dwPrivSize, dwHashes, dwOffset, sj, samOpens, samCloses, samBad,
                   samOut, samErr>>
    /\ UNCHANGED <<dwEnum, sueUsers, samSeen, samFail>>
    /\ UNCHANGED notSam

\* pSamIFree_SAMPR_ENUMERATION_BUFFER( sueEnum )
Sam_FreeEnum ==
    /\ spc = "FreeEnum"
    /\ samBad' = samBad \cup FreeNote(sueEnum)
    /\ sueEnum' = "freed"
    /\ samCloses' = [samCloses EXCEPT !["enum"] = @ + 1]
    /\ spc' = "While"
    /\ UNCHANGED <<samRoutine, hSAMSrv, hAdvapi32, hLSA, pDomainInfo, hSAM, hDomain,
                   hUser, pHashData, nEnumStatus, dwEnumCalls, dwNumber, si, dwPrivSize,
                   dwHashes, dwOffset, sj, samOpens, samOut, samErr>>
    /\ UNCHANGED <<dwEnum, sueUsers, samSeen, samFail>>
    /\ UNCHANGED notSam

\* } while ( nEnumStatus == 0x105 );
Sam_While ==
    /\ spc = "While"
    /\ spc' = IF EnumMore(nEnumStatus) THEN "Enumerate" ELSE "CloseDomain"
    /\ UNCHANGED <<samRoutine, hSAMSrv, hAdvapi32, hLSA, pDomainInfo, hSAM, hDomain,
                   hUser, sueEnum, pHashData, nEnumStatus, dwEnumCalls, dwNumber, si,
                   dwPrivSize, dwHashes, dwOffset, sj, samOpens, samCloses, samBad,
                   samOut, samErr>>
    /\ UNCHANGED <<dwEnum, sueUsers, samSeen, samFail>>
    /\ UNCHANGED notSam

\* pSamrCloseHandle( &hDomain )
Sam_CloseDomain ==
    /\ spc = "CloseDomain"
    /\ samBad' = samBad \cup CloseNote(hDomain)
    /\ hDomain' = "closed"
    /\ samCloses' = [samCloses EXCEPT !["domain"] = @ + 1]
    /\ spc' = "CloseSAM"
    /\ UNCHANGED <<samRoutine, hSAMSrv, hAdvapi32, hLSA, pDomainInfo, hSAM, hUser,
                   sueEnum, pHashData, nEnumStatus, dwEnumCalls, dwNumber, si,
                   dwPrivSize, dwHashes, dwOffset, sj, samOpens, samOut, samErr>>
    /\ UNCHANGED <<dwEnum, sueUsers, samSeen, samFail>>
    /\ UNCHANGED notSam

\* pSamrCloseHandle( &hSAM )
Sam_CloseSAM ==
    /\ spc = "CloseSAM"
    /\ samBad' = samBad \cup CloseNote(hSAM)
    /\ hSAM' = "closed"
    /\ samCloses' = [samCloses EXCEPT !["sam"] = @ + 1]
    /\ spc' = "LsaFreeMemory"
    /\ UNCHANGED <<samRoutine, hSAMSrv, hAdvapi32, hLSA, pDomainInfo, hDomain, hUser,
                   sueEnum, pHashData, nEnumStatus, dwEnumCalls, dwNumber, si,
                   dwPrivSize, dwHashes, dwOffset, sj, samOpens, samOut, samErr>>
    /\ UNCHANGED <<dwEnum, sueUsers, samSeen, samFail>>
    /\ UNCHANGED notSam

\* LsaFreeMemory( pDomainInfo )
Sam_LsaFreeMemory ==
    /\ spc = "LsaFreeMemory"
    /\ samBad' = samBad \cup FreeNote(pDomainInfo)
    /\ pDomainInfo' = "freed"
    /\ spc' = "LsaClose"
    /\ UNCHANGED <<samRoutine, hSAMSrv, hAdvapi32, hLSA, hSAM, hDomain, hUser, sueEnum,
                   pHashData, nEnumStatus, dwEnumCalls, dwNumber, si, dwPrivSize,
                   dwHashes, dwOffset, sj, samOpens, samCloses, samOut, samErr>>
    /\ UNCHANGED <<dwEnum, sueUsers, samSeen, samFail>>
    /\ UNCHANGED notSam

\* LsaClose( hLSA )
Sam_LsaClose ==
    /\ spc = "LsaClose"
    /\ samBad' = samBad \cup CloseNote(hLSA)
    /\ hLSA' = "closed"
    /\ spc' = "FreeLibrary"
    /\ UNCHANGED <<samRoutine, hSAMSrv, hAdvapi32, pDomainInfo, hSAM, hDomain, hUser,
                   sueEnum, pHashData, nEnumStatus, dwEnumCalls, dwNumber, si,
                   dwPrivSize, dwHashes, dwOffset, sj, samOpens, samCloses, samOut,
                   samErr>>
    /\ UNCHANGED <<dwEnum, sueUsers, samSeen, samFail>>
    /\ UNCHANGED notSam

\* FreeLibrary( hSAMSrv )
Sam_FreeLibrary ==
    /\ spc = "FreeLibrary"
    /\ hSAMSrv' = "freed"
    /\ spc' = "return"
    /\ UNCHANGED <<samRoutine, hAdvapi32, hLSA, pDomainInfo, hSAM, hDomain, hUser,
                   sueEnum, pHashData, nEnumStatus, dwEnumCalls, dwNumber, si,
                   dwPrivSize, dwHashes, dwOffset, sj, samOpens, samCloses, samBad,
                   samOut, samErr>>
    /\ UNCHANGED <<dwEnum, sueUsers, samSeen, samFail>>
    /\ UNCHANGED notSam

SamNext ==
    \/ Sam_LoadLibrary
    \/ Sam_LsaOpenPolicy
    \/ Sam_LsaQueryInformationPolicy
    \/ Sam_SamIConnect
    \/ Sam_SamrOpenDomain
    \/ Sam_Enumerate
    \/ Sam_ForUser
    \/ Sam_SamrOpenUser
    \/ Sam_SamrQueryInformationUser
    \/ Sam_EmitCurrent
    \/ Sam_SamIGetPrivateData
    \/ Sam_HistorySlot
    \/ Sam_LocalFree
    \/ Sam_CloseUser
    \/ Sam_NextUser
    \/ Sam_FreeEnum
    \/ Sam_While
    \/ Sam_CloseDomain
    \/ Sam_CloseSAM
    \/ Sam_LsaFreeMemory
    \/ Sam_LsaClose
    \/ Sam_FreeLibrary

----------------------------------------------------------------------------
\* The LM and NT fields of an output line (DumpExt.c DumpPWHashes; the same
\* statements are in DumpPWHistoryHashes)

\* HashData[k] of unsigned HashData[ 8 ] over the bytes h (x86: the low byte
\* first), as a DWORD
HashWordHighByteFirst(h, k) ==
    <<h[4 * k + 1] * 256 + h[4 * k + 2], h[4 * k + 3] * 256 + h[4 * k + 4]>>

HashWord(h, k) ==
    <<h[4 * k + 4] * 256 + h[4 * k + 3], h[4 * k + 2] * 256 + h[4 * k + 1]>>

\* 0x35b4d3aa, 0xee0414b5, 0x35b4d3aa, 0xee0414b5: compared with HashData[4..7]
LmWords == <<<<13748, 54186>>, <<60932, 5301>>, <<13748, 54186>>, <<60932, 5301>>>>

\* 0xe0cfd631, 0x31e96ad1, 0xd7593cb7, 0xc089c0e0: compared with HashData[0..3]
NtWords == <<<<57551, 54833>>, <<12777, 27345>>, <<55129, 15543>>, <<49289, 49376>>>>

\* sprintf( sz, "NO PASSWORD*********************" )
NoPassword ==
    <<"N", "O", " ", "P", "A", "S", "S", "W", "O", "R", "D">> \o [k \in 1 .. 21 |-> "*"]

\* sprintf( p, "%02X", b )
HexDigits == <<"0", "1", "2", "3", "4", "5", "6", "7", "8", "9", "A", "B", "C", "D", "E", "F">>

Hex02X(b) == <<HexDigits[b \div 16 + 1], HexDigits[(b % 16) + 1]>>

\* for ( j = from; j < from + 16; j++ ) { sprintf( p, "%02X", bHashData[j] ); p += 2; }
HexOf16(h, from) ==
    [c \in 1 .. 32 |-> Hex02X(h[from + (c + 1) \div 2])[2 - (c % 2)]]

\* The if / else that fills szLMHash
RenderLM(h) ==
    IF \A k \in 4 .. 7 : HashWord(h, k) = LmWords[k - 3]
    THEN NoPassword
    ELSE HexOf16(h, 16)

\* The if / else that fills szNTHash
RenderNT(h) ==
    IF \A k \in 0 .. 3 : HashWord(h, k) = NtWords[k + 1]
    THEN NoPassword
    ELSE HexOf16(h, 0)

\* One 16-byte half with byte x (1 .. 16) replaced by v
WithByte(half, x, v) == [half EXCEPT ![x] = v]

\* The halves the hash info buffer is drawn from: the two words of the code's
\* tests as bytes, near misses of them in each of the four words, and others
HalfOfNtWords ==
    <<49, 214, 207, 224, 209, 106, 233, 49, 183, 60, 89, 215, 224, 192, 137, 192>>

HalfOfLmWords ==
    <<170, 211, 180, 53, 181, 20, 4, 238, 170, 211, 180, 53, 181, 20, 4, 238>>

Halves ==
    {HalfOfNtWords, HalfOfLmWords,
     WithByte(HalfOfNtWords, 1, 48), WithByte(HalfOfNtWords, 6, 107),
     WithByte(HalfOfNtWords, 11, 0), WithByte(HalfOfNtWords, 16, 193),
     WithByte(HalfOfLmWords, 4, 54), WithByte(HalfOfLmWords, 5, 0),
     WithByte(HalfOfLmWords, 9, 171), WithByte(HalfOfLmWords, 16, 239),
     [x \in 1 .. 16 |-> 0], [x \in 1 .. 16 |-> 255], [x \in 1 .. 16 |-> 16 * x - 7]}

\* memcpy( HashData, pHashData, 32 ): bytes 0..15 and bytes 16..31
HashInit ==
    /\ hpc = "LM"
    /\ HashData \in {lo \o hi : lo \in Halves, hi \in Halves}
    /\ szLMHash = <<>>
    /\ szNTHash = <<>>

HashIdle ==
    /\ hpc = "idle" /\ HashData = <<>> /\ szLMHash = <<>> /\ szNTHash = <<>>

\* The test of HashData[4..7] and the sentinel or the hex of bytes 16..31
Hash_LM ==
    /\ hpc = "LM"
    /\ szLMHash' = RenderLM(HashData)
    /\ hpc' = "NT"
    /\ UNCHANGED <<HashData, szNTHash>>
    /\ UNCHANGED notHash

\* The test of HashData[0..3] and the sentinel or the hex of bytes 0..15
Hash_NT ==
    /\ hpc = "NT"
    /\ szNTHash' = RenderNT(HashData)
    /\ hpc' = "fprintf"
    /\ UNCHANGED <<HashData, szLMHash>>
    /\ UNCHANGED notHash

HashNext ==
    \/ Hash_LM
    \/ Hash_NT

----------------------------------------------------------------------------
\* Secrets: DumpLSASecrets and the NL$KM part of DumpPWCache (DumpExt.c), DumpLsa
\* (dumplsa.c)

\* At most MaxSecrets subkeys are enumerated under SECURITY\\Policy\\Secrets
MaxSecrets == 2

\* wcslen( wszSecret ) of the names enumerated
NameLens == {3, 7}

\* wcslen( wszSecret ) of the name L"NL$KM"
NlkmLen == 5

\* lusSecret.Length = wcslen( wszSecret ) * 2; lusSecret.MaximumLength = lusSecret.Length
FirstLength(n) == [Length |-> n * 2, MaximumLength |-> n * 2]

\* lusSecret.Length += 2; lusSecret.MaximumLength += 2
RetryLengthUnchanged(lus) == lus

RetryLength(lus) == [Length |-> lus.Length + 2, MaximumLength |-> lus.MaximumLength + 2]

\* Where the routine continues after LsarQuerySecret failed: the error is
\* written and pLsarClose( &hSecret ) follows
AfterSecretQueryFailureSkipsClose == "NextName"

AfterSecretQueryFailure == "CloseSecret"

\* The routines of DumpExt.c
InDumpExt(r) == r \in {"DumpLSASecrets", "DumpPWCache"}

\* The text written by WriteToErrorLog in DumpExt.c, by SendText in dumplsa.c
ErrorText(r, inDumpExt, inDumpLsa) == IF InDumpExt(r) THEN inDumpExt ELSE inDumpLsa

SecKinds == {"policy", "secret", "data"}

SecInit ==
    /\ secRoutine \in {"DumpLSASecrets", "DumpPWCache", "DumpLsa"}
    /\ qpc = IF secRoutine = "DumpLsa" THEN "CreateFile" ELSE "LoadLibrary"
    /\ hPolicy = "null" /\ hSecret = "null" /\ lsaData = "null"
    /\ secI = 0 /\ nameLen = 0
    /\ lusSecret = [Length |-> 0, MaximumLength |-> 0]
    /\ secTries = <<>> /\ secOut = <<>> /\ secErr = <<>>
    /\ secOpens = [k \in SecKinds |-> 0]
    /\ secCloses = [k \in SecKinds |-> 0]
    /\ secBad = {}

SecIdle ==
    /\ secRoutine = "none"
    /\ qpc = "idle"
    /\ hPolicy = "null" /\ hSecret = "null" /\ lsaData = "null"
    /\ secI = 0 /\ nameLen = 0
    /\ lusSecret = [Length |-> 0, MaximumLength |-> 0]
    /\ secTries = <<>> /\ secOut = <<>> /\ secErr = <<>>
    /\ secOpens = [k \in SecKinds |-> 0]
    /\ secCloses = [k \in SecKinds |-> 0]
    /\ secBad = {}

\* DumpLsa: hPipe = CreateFile( szPipeName, ... ); on failure goto exit
Sec_CreateFile ==
    /\ qpc = "CreateFile"
    /\ \E ok \in BOOLEAN : qpc' = IF ok THEN "LoadLibrary" ELSE "Exit"
    /\ UNCHANGED <<secRoutine, hPolicy, hSecret, lsaData, secI, nameLen, lusSecret,
                   secTries, secOut, secErr, secOpens, secCloses, secBad>>
    /\ UNCHANGED notSec

\* LoadLibrary( "lsasrv.dll" ), the four GetProcAddress and the test that all
\* resolved
Sec_LoadLibrary ==
    /\ qpc = "LoadLibrary"
    /\ \E ok \in BOOLEAN :
         IF ok
         THEN qpc' = "OpenPolicy" /\ secErr' = secErr
         ELSE /\ qpc' = IF InDumpExt(secRoutine) THEN "return" ELSE "Exit"
              /\ secErr' = Append(secErr, [i |-> 0 - 1,
                     text |-> ErrorText(secRoutine, "Cannot load LSA functions",
                                        "Failed to load functions")])
    /\ UNCHANGED <<secRoutine, hPolicy, hSecret, lsaData, secI, nameLen, lusSecret,
                   secTries, secOut, secOpens, secCloses, secBad>>
    /\ UNCHANGED notSec

\* nStatus = pLsaIOpenPolicyTrusted( &hPolicy )
Sec_OpenPolicy ==
    /\ qpc = "OpenPolicy"
    /\ \E ok \in BOOLEAN :
         IF ok
         THEN /\ hPolicy' = "open"
              /\ secOpens' = [secOpens EXCEPT !["policy"] = @ + 1]
              /\ qpc' = IF secRoutine = "DumpPWCache" THEN "SetName" ELSE "RegOpenKeyEx"
              /\ secErr' = secErr
         ELSE /\ hPolicy' = "null"
              /\ secOpens' = secOpens
              /\ qpc' = IF InDumpExt(secRoutine) THEN "FreeLibrary" ELSE "Exit"
              /\ secErr' = Append(secErr,
                     [i |-> 0 - 1,
                      text |-> ErrorText(secRoutine, "Cannot open trusted LSA policy",
                                         "LsaIOpenPolicyTrusted failed")])
    /\ UNCHANGED <<secRoutine, hSecret, lsaData, secI, nameLen, lusSecret, secTries,
                   secOut, secCloses, secBad>>
    /\ UNCHANGED notSec

\* RegOpenKeyEx( HKEY_LOCAL_MACHINE, "SECURITY\\Policy\\Secrets", ... ); i = 0
Sec_RegOpenKeyEx ==
    /\ qpc = "RegOpenKeyEx"
    /\ \E ok \in BOOLEAN :
         IF ok
         THEN qpc' = "RegEnumKeyW" /\ secI' = 0 /\ secErr' = secErr
         ELSE /\ qpc' = IF InDumpExt(secRoutine) THEN "ClosePolicy" ELSE "Exit"
              /\ secI' = secI
              /\ secErr' = Append(secErr, [i |-> 0 - 1,
                     text |-> ErrorText(secRoutine, "Cannot open registry key",
                                        "RegOpenKeyEx failed")])
    /\ UNCHANGED <<secRoutine, hPolicy, hSecret, lsaData, nameLen, lusSecret, secTries,
                   secOut, secOpens, secCloses, secBad>>
    /\ UNCHANGED notSec

\* dwStatus = RegEnumKeyW( hKeySecrets, i, wszSecret, ... ): break, or the name
\* is put in lusSecret (and DumpLSASecrets sets hSecret = 0)
Sec_RegEnumKeyW ==
    /\ qpc = "RegEnumKeyW"
    /\ \/ /\ secI < MaxSecrets
          /\ \E n \in NameLens :
               /\ nameLen' = n
               /\ lusSecret' = FirstLength(n)
          /\ secTries' = <<>>
          /\ hSecret' = IF secRoutine = "DumpLSASecrets" THEN "null" ELSE hSecret
          /\ qpc' = "LsarOpenSecret"
       \/ /\ qpc' = IF InDumpExt(secRoutine) THEN "RegCloseKey" ELSE "Exit"
          /\ UNCHANGED <<nameLen, lusSecret, secTries, hSecret>>
    /\ UNCHANGED <<secRoutine, hPolicy, lsaData, secI, secOut, secErr, secOpens,
                   secCloses, secBad>>
    /\ UNCHANGED notSec

\* DumpPWCache: strcpy( szSecret, "NL$KM" ), lusSecret, bContinue = FALSE,
\* hSecret = 0
Sec_SetName ==
    /\ qpc = "SetName"
    /\ nameLen' = NlkmLen
    /\ lusSecret' = FirstLength(NlkmLen)
    /\ secTries' = <<>>
    /\ hSecret' = "null"
    /\ qpc' = "LsarOpenSecret"
    /\ UNCHANGED <<secRoutine, hPolicy, lsaData, secI, secOut, secErr, secOpens,
                   secCloses, secBad>>
    /\ UNCHANGED notSec

\* nStatus = pLsarOpenSecret( hPolicy, &lusSecret, 2, &hSecret )
Sec_LsarOpenSecret ==
    /\ qpc = "LsarOpenSecret"
    /\ \E ok \in BOOLEAN :
         /\ secTries' = Append(secTries, [lus |-> lusSecret, ok |-> ok])
         /\ IF ok
            THEN /\ hSecret' = "open"
                 /\ secOpens' = [secOpens EXCEPT !["secret"] = @ + 1]
                 /\ qpc' = "LsarQuerySecret"
            ELSE /\ hSecret' = hSecret
                 /\ secOpens' = secOpens
                 /\ qpc' = "Retry"
    /\ UNCHANGED <<secRoutine, hPolicy, lsaData, secI, nameLen, lusSecret, secOut,
                   secErr, secCloses, secBad>>
    /\ UNCHANGED notSec

\* if ( nStatus < 0 ): the lengths are raised and pLsarOpenSecret is called once
\* more; if this fails too, DumpLSASecrets continues with the next name,
\* DumpLsa sends "LsarOpenSecret failed" and continues, DumpPWCache leaves
\* bContinue FALSE
Sec_Retry ==
    /\ qpc = "Retry"
    /\ lusSecret' = RetryLength(lusSecret)
    /\ \E ok \in BOOLEAN :
         /\ secTries' = Append(secTries, [lus |-> RetryLength(lusSecret), ok |-> ok])
         /\ IF ok
            THEN /\ hSecret' = "open"
                 /\ secOpens' = [secOpens EXCEPT !["secret"] = @ + 1]
                 /\ qpc' = "LsarQuerySecret"
                 /\ secErr' = secErr
            ELSE /\ hSecret' = hSecret
                 /\ secOpens' = secOpens
                 /\ qpc' = IF secRoutine = "DumpPWCache" THEN "ClosePolicy" ELSE "NextName"
                 /\ secErr' = IF secRoutine = "DumpLsa"
                              THEN Append(secErr, [i |-> secI, text |-> "LsarOpenSecret failed"])
                              ELSE secErr
    /\ UNCHANGED <<secRoutine, hPolicy, lsaData, secI, nameLen, secOut, secCloses,
                   secBad>>
    /\ UNCHANGED notSec

\* lsaData = NULL (DumpExt.c only); nStatus = pLsarQuerySecret( hSecret, &lsaData,
\* 0, 0, 0 ).  A call that succeeds stores a buffer or NULL in lsaData.
Sec_LsarQuerySecret ==
    /\ qpc = "LsarQuerySecret"
    /\ \E r \in {"failed", "buffer", "no buffer"} :
         /\ lsaData' = IF r = "buffer" THEN "live"
                        ELSE IF r = "no buffer" \/ InDumpExt(secRoutine) THEN "null"
                        ELSE lsaData
         /\ secOpens' = IF r = "buffer" THEN [secOpens EXCEPT !["data"] = @ + 1]
                                         ELSE secOpens
         /\ IF r = "failed"
            THEN /\ secErr' = Append(secErr, [i |-> secI,
                        text |-> ErrorText(secRoutine, "Cannot query LSA Secret",
                                           "LsarQuerySecret failed")])
                 /\ qpc' = AfterSecretQueryFailure
            ELSE /\ secErr' = secErr
                 /\ qpc' = "Emit"
    /\ UNCHANGED <<secRoutine, hPolicy, hSecret, secI, nameLen, lusSecret, secTries,
                   secOut, secCloses, secBad>>
    /\ UNCHANGED notSec

\* The query succeeded.  DumpLSASecrets and DumpLsa write the name and, if
\* lsaData is not NULL, the dump of lsaData->Buffer; DumpPWCache, if lsaData is
\* not NULL, opens SECURITY\\Cache and runs the NL$i loop with lsaData->Buffer
\* as the key, or writes an error if the key cannot be opened.  The output file
\* is taken to open.
Sec_Emit ==
    /\ qpc = "Emit"
    /\ secOut' = IF secRoutine = "DumpPWCache" THEN secOut
                  ELSE Append(secOut, [i |-> secI, dump |-> lsaData # "null"])
    /\ secBad' = IF lsaData = "freed"
                  THEN secBad \cup {"use of a buffer that is not held"}
                  ELSE secBad
    /\ \E ok \in BOOLEAN :
         secErr' = IF secRoutine = "DumpPWCache" /\ lsaData # "null" /\ ~ok
                   THEN Append(secErr, [i |-> secI,
                                        text |-> "Cannot open registry key HKLM\\SECURITY\\Cache"])
                   ELSE secErr
    /\ qpc' = "LsaFreeMemory"
    /\ UNCHANGED <<secRoutine, hPolicy, hSecret, lsaData, secI, nameLen, lusSecret, secTries,
                   secOpens, secCloses>>
    /\ UNCHANGED notSec

\* LsaFreeMemory( lsaData )
Sec_LsaFreeMemory ==
    /\ qpc = "LsaFreeMemory"
    /\ secBad' = IF lsaData = "freed"
                  THEN secBad \cup {"free of a buffer that is not held"}
                  ELSE secBad
    /\ secCloses' = IF lsaData = "null" THEN secCloses
                     ELSE [secCloses EXCEPT !["data"] = @ + 1]
    /\ lsaData' = IF lsaData = "null" THEN "null" ELSE "freed"
    /\ qpc' = "CloseSecret"
    /\ UNCHANGED <<secRoutine, hPolicy, hSecret, secI, nameLen, lusSecret, secTries,
                   secOut, secErr, secOpens>>
    /\ UNCHANGED notSec

\* pLsarClose( &hSecret ) (and hSecret = 0 in DumpLsa)
Sec_CloseSecret ==
    /\ qpc = "CloseSecret"
    /\ secBad' = IF hSecret = "open" THEN secBad
                  ELSE secBad \cup {"close of a handle that is not open"}
    /\ secCloses' = [secCloses EXCEPT !["secret"] = @ + 1]
    /\ hSecret' = IF secRoutine = "DumpLsa" THEN "null" ELSE "closed"
    /\ qpc' = IF secRoutine = "DumpPWCache" THEN "ClosePolicy" ELSE "NextName"
    /\ UNCHANGED <<secRoutine, hPolicy, lsaData, secI, nameLen, lusSecret, secTries,
                   secOut, secErr, secOpens>>
    /\ UNCHANGED notSec

\* for ( ...; TRUE; i++ )
Sec_NextName ==
    /\ qpc = "NextName"
    /\ secI' = secI + 1
    /\ qpc' = "RegEnumKeyW"
    /\ UNCHANGED <<secRoutine, hPolicy, hSecret, lsaData, nameLen, lusSecret, secTries,
                   secOut, secErr, secOpens, secCloses, secBad>>
    /\ UNCHANGED notSec

\* DumpLSASecrets: RegCloseKey( hKeySecrets )
Sec_RegCloseKey ==
    /\ qpc = "RegCloseKey"
    /\ qpc' = "ClosePolicy"
    /\ UNCHANGED <<secRoutine, hPolicy, hSecret, lsaData, secI, nameLen, lusSecret,
                   secTries, secOut, secErr, secOpens, secCloses, secBad>>
    /\ UNCHANGED notSec

\* DumpExt.c: pLsarClose( &hPolicy )
Sec_ClosePolicy ==
    /\ qpc = "ClosePolicy"
    /\ secBad' = IF hPolicy = "open" THEN secBad
                  ELSE secBad \cup {"close of a handle that is not open"}
    /\ secCloses' = [secCloses EXCEPT !["policy"] = @ + 1]
    /\ hPolicy' = "closed"
    /\ qpc' = "FreeLibrary"
    /\ UNCHANGED <<secRoutine, hSecret, lsaData, secI, nameLen, lusSecret, secTries,
                   secOut, secErr, secOpens>>
    /\ UNCHANGED notSec

\* DumpExt.c: FreeLibrary( hLSASrv )
Sec_FreeLibrary ==
    /\ qpc = "FreeLibrary"
    /\ qpc' = "return"
    /\ UNCHANGED <<secRoutine, hPolicy, hSecret, lsaData, secI, nameLen, lusSecret,
                   secTries, secOut, secErr, secOpens, secCloses, secBad>>
    /\ UNCHANGED notSec

\* DumpLsa, exit: if (hPolicy) pLsarClose (&hPolicy); if (hSecret) pLsarClose
\* (&hSecret); the key, the pipe and the library are released; return
Sec_Exit ==
    /\ qpc = "Exit"
    /\ secBad' = IF hSecret = "closed"
                  THEN secBad \cup {"close of a handle that is not open"}
                  ELSE secBad
    /\ secCloses' = [secCloses EXCEPT
                        !["policy"] = IF hPolicy # "null" THEN @ + 1 ELSE @,
                        !["secret"] = IF hSecret # "null" THEN @ + 1 ELSE @]
    /\ hPolicy' = IF hPolicy # "null" THEN "closed" ELSE hPolicy
    /\ hSecret' = IF hSecret # "null" THEN "closed" ELSE hSecret
    /\ qpc' = "return"
    /\ UNCHANGED <<secRoutine, lsaData, secI, nameLen, lusSecret, secTries, secOut,
                   secErr, secOpens>>
    /\ UNCHANGED notSec

SecNext ==
    \/ Sec_CreateFile
    \/ Sec_LoadLibrary
    \/ Sec_OpenPolicy
    \/ Sec_RegOpenKeyEx
    \/ Sec_RegEnumKeyW
    \/ Sec_SetName
    \/ Sec_LsarOpenSecret
    \/ Sec_Retry
    \/ Sec_LsarQuerySecret
    \/ Sec_Emit
    \/ Sec_LsaFreeMemory
    \/ Sec_CloseSecret
    \/ Sec_NextName
    \/ Sec_RegCloseKey
    \/ Sec_ClosePolicy
    \/ Sec_FreeLibrary
    \/ Sec_Exit

----------------------------------------------------------------------------
\* The exported entry point DumpLSAInfo (DumpExt.c)

\* Values of HKLM\\SOFTWARE\\Microsoft\\Windows NT\\CurrentVersion\\CurrentVersion,
\* as the characters of szCurrentVersion
Versions ==
    { <<>>, <<"4", ".", "0">>, <<"5", ".", "1">>, <<"6", ".", "3">>,
      <<"1", "0", ".", "0">> }

DigitValue == [c \in {"0", "1", "2", "3", "4", "5", "6", "7", "8", "9"} |->
                 CHOOSE n \in 0 .. 9 : <<"0", "1", "2", "3", "4", "5", "6", "7", "8", "9">>[n + 1] = c]

RECURSIVE AtoiFrom(_, _)
\* atoi continued: acc is the value of the digits read so far
AtoiFrom(sz, acc) ==
    IF sz = <<>> \/ Head(sz) \notin DOMAIN DigitValue THEN acc
    ELSE AtoiFrom(Tail(sz), 10 * acc + DigitValue[Head(sz)])

\* atoi( sz ) for a string without sign or leading white space
Atoi(sz) == AtoiFrom(sz, 0)

\* szMajorVersion[0] = szCurrentVersion[0]; szMajorVersion[1] = 0; atoi( szMajorVersion )
MajorVersionOfAllDigits(v) == Atoi(v)

MajorVersion(v) == Atoi(<<v[1]>>)

\* What the registry calls at the head of the cache block can give: the call
\* that failed, or "read"
RegOutcomes == {"RegConnectRegistry", "RegOpenKeyEx", "RegQueryValueEx", "read"}

InfoInit ==
    /\ bDumpPWCache \in BOOLEAN /\ bDumpLSASecrets \in BOOLEAN
    /\ bDumpPWHashes \in BOOLEAN /\ bDumpPWHistoryHashes \in BOOLEAN
    /\ lpc = "bDumpPWCache"
    /\ lReturn = "none" /\ szCurrentVersion = <<>>
    /\ infoRan = <<>> /\ infoFiles = <<>> /\ infoErr = <<>>

InfoIdle ==
    /\ bDumpPWCache = FALSE /\ bDumpLSASecrets = FALSE
    /\ bDumpPWHashes = FALSE /\ bDumpPWHistoryHashes = FALSE
    /\ lpc = "idle"
    /\ lReturn = "none" /\ szCurrentVersion = <<>>
    /\ infoRan = <<>> /\ infoFiles = <<>> /\ infoErr = <<>>

\* The error-log lines a category routine may write while it runs
RoutineErrors(routine) == {<<>>, <<[by |-> routine]>>}

\* if ( bDumpPWCache ) { ... }: the version is read from the registry, DumpPWCache
\* is called if its first digit is above 4, and EncryptOutputFile( "PWCache.txt" )
\* is called in every case
Info_bDumpPWCache ==
    /\ lpc = "bDumpPWCache"
    /\ lpc' = "bDumpLSASecrets"
    /\ IF bDumpPWCache
       THEN \E r \in RegOutcomes, v \in Versions, e \in RoutineErrors("DumpPWCache") :
              /\ lReturn' = r
              /\ szCurrentVersion' = IF r = "read" THEN v ELSE <<>>
              /\ IF r # "read"
                 THEN /\ infoRan' = infoRan
                      /\ infoErr' = Append(infoErr, [by |-> "DumpLSAInfo"])
                 ELSE IF v # <<>> /\ MajorVersion(v) > 4
                 THEN /\ infoRan' = Append(infoRan, "DumpPWCache")
                      /\ infoErr' = infoErr \o e
                 ELSE /\ infoRan' = infoRan
                      /\ infoErr' = infoErr
              /\ infoFiles' = Append(infoFiles, "PWCache.txt")
       ELSE UNCHANGED <<lReturn, szCurrentVersion, infoRan, infoErr, infoFiles>>
    /\ UNCHANGED <<bDumpPWCache, bDumpLSASecrets, bDumpPWHashes, bDumpPWHistoryHashes>>
    /\ UNCHANGED notInfo

\* if ( bDumpLSASecrets ) { DumpLSASecrets(); EncryptOutputFile( "LSASecrets.txt" ); }
Info_bDumpLSASecrets ==
    /\ lpc = "bDumpLSASecrets"
    /\ lpc' = "bDumpPWHashes"
    /\ IF bDumpLSASecrets
       THEN \E e \in RoutineErrors("DumpLSASecrets") :
              /\ infoRan' = Append(infoRan, "DumpLSASecrets")
              /\ infoErr' = infoErr \o e
              /\ infoFiles' = Append(infoFiles, "LSASecrets.txt")
       ELSE UNCHANGED <<infoRan, infoErr, infoFiles>>
    /\ UNCHANGED <<bDumpPWCache, bDumpLSASecrets, bDumpPWHashes, bDumpPWHistoryHashes,
                   lReturn, szCurrentVersion>>
    /\ UNCHANGED notInfo

\* if ( bDumpPWHashes ) { DumpPWHashes(); EncryptOutputFile( "PWHashes.txt" ); }
Info_bDumpPWHashes ==
    /\ lpc = "bDumpPWHashes"
    /\ lpc' = "bDumpPWHistoryHashes"
    /\ IF bDumpPWHashes
       THEN \E e \in RoutineErrors("DumpPWHashes") :
              /\ infoRan' = Append(infoRan, "DumpPWHashes")
              /\ infoErr' = infoErr \o e
              /\ infoFiles' = Append(infoFiles, "PWHashes.txt")
       ELSE UNCHANGED <<infoRan, infoErr, infoFiles>>
    /\ UNCHANGED <<bDumpPWCache, bDumpLSASecrets, bDumpPWHashes, bDumpPWHistoryHashes,
                   lReturn, szCurrentVersion>>
    /\ UNCHANGED notInfo

\* if ( bDumpPWHistoryHashes ) { DumpPWHistoryHashes(); EncryptOutputFile( "PWHistoryHashes.txt" ); }
Info_bDumpPWHistoryHashes ==
    /\ lpc = "bDumpPWHistoryHashes"
    /\ lpc' = "return"
    /\ IF bDumpPWHistoryHashes
       THEN \E e \in RoutineErrors("DumpPWHistoryHashes") :
              /\ infoRan' = Append(infoRan, "DumpPWHistoryHashes")
              /\ infoErr' = infoErr \o e
              /\ infoFiles' = Append(infoFiles, "PWHistoryHashes.txt")
       ELSE UNCHANGED <<infoRan, infoErr, infoFiles>>
    /\ UNCHANGED <<bDumpPWCache, bDumpLSASecrets, bDumpPWHashes, bDumpPWHistoryHashes,
                   lReturn, szCurrentVersion>>
    /\ UNCHANGED notInfo

InfoNext ==
    \/ Info_bDumpPWCache
    \/ Info_bDumpLSASecrets
    \/ Info_bDumpPWHashes
    \/ Info_bDumpPWHistoryHashes

----------------------------------------------------------------------------
\* The hex dump of a secret: DumpSecretData (DumpExt.c), dump_bytes (dumplsa.c).
\* A line is the sequence of its character codes, without the newline.

\* Lengths of the blobs dumped
DumpSizes == {0, 1, 15, 16, 17, 32, 33}

\* First byte and step of the blobs dumped: byte k of a blob is
\* (first + k * step) % 256
DumpPatterns ==
    { <<0, 1>>, <<24, 1>>, <<31, 0>>, <<32, 0>>, <<110, 1>>, <<126, 0>>, <<127, 0>>,
      <<250, 1>>, <<65, 37>> }

\* IsReadableChar( nChar ) / myisprint( ch ): ( nChar >= ' ' ) && ( nChar <= '~' )
IsReadableCharBelowTilde(nChar) == nChar >= 32 /\ nChar < 126

IsReadableChar(nChar) == nChar >= 32 /\ nChar <= 126

\* The character code of the hexadecimal digit d as %X prints it
HexDigitCode(d) == IF d < 10 THEN 48 + d ELSE 55 + d

\* " %02X" of the byte b
SpaceHex02X(b) == <<32, HexDigitCode(b \div 16), HexDigitCode(b % 16)>>

\* %c of IsReadableChar( b ) ? b : '.'
CharOrDot(b) == IF IsReadableChar(b) THEN b ELSE 46

RECURSIVE ConcatAll(_)
ConcatAll(ss) == IF ss = <<>> THEN <<>> ELSE Head(ss) \o ConcatAll(Tail(ss))

\* The sprintf of the while loop: 16 groups, two spaces, 16 characters
FullLine(q) ==
    ConcatAll([k \in 1 .. 16 |-> SpaceHex02X(q[k])])
        \o <<32, 32>> \o [k \in 1 .. 16 |-> CharOrDot(q[k])]

\* The line of the last dwSize bytes: the groups, "%*s" of width j * 3 + 2 with
\* j = 16 - dwSize, and szTempBuffer
LastLine(q, size) ==
    ConcatAll([k \in 1 .. size |-> SpaceHex02X(q[k])])
        \o [k \in 1 .. (16 - size) * 3 + 2 |-> 32]
        \o [k \in 1 .. size |-> CharOrDot(q[k])]

DumpInit ==
    /\ dpc = "while"
    /\ \E n \in DumpSizes, pat \in DumpPatterns :
         dumpIn = [k \in 1 .. n |-> (pat[1] + (k - 1) * pat[2]) % 256]
    /\ pDump = dumpIn
    /\ dwDumpSize = Len(dumpIn)
    /\ dumpLines = <<>>

DumpIdle ==
    /\ dpc = "idle" /\ dumpIn = <<>> /\ pDump = <<>> /\ dwDumpSize = 0 /\ dumpLines = <<>>

\* One pass of while ( dwSize > 16 ): a line of 16 bytes is written; p += 16;
\* dwSize -= 16.  The output file is taken to open.
Dump_While ==
    /\ dpc = "while"
    /\ dwDumpSize > 16
    /\ dumpLines' = Append(dumpLines, FullLine(pDump))
    /\ pDump' = SubSeq(pDump, 17, Len(pDump))
    /\ dwDumpSize' = dwDumpSize - 16
    /\ UNCHANGED <<dpc, dumpIn>>
    /\ UNCHANGED notDump

\* The loop is left; if ( dwSize > 0 ) the remaining bytes are written as one
\* line
Dump_Last ==
    /\ dpc = "while"
    /\ ~(dwDumpSize > 16)
    /\ IF dwDumpSize > 0
       THEN /\ dumpLines' = Append(dumpLines, LastLine(pDump, dwDumpSize))
            /\ pDump' = SubSeq(pDump, dwDumpSize + 1, Len(pDump))
            /\ dwDumpSize' = 0
       ELSE UNCHANGED <<dumpLines, pDump, dwDumpSize>>
    /\ dpc' = "return"
    /\ UNCHANGED <<dumpIn>>
    /\ UNCHANGED notDump

DumpNext ==
    \/ Dump_While
    \/ Dump_Last

----------------------------------------------------------------------------
\* The transit transform: EncryptOutputFile and Obfuscate (DumpExt.c),
\* DecryptOutputFile and Obfuscate (PWDumpX.c).  A file is the sequence of the
\* characters that fgets reads from it and fprintf appends to it.

\* CHAR szLine[ 1024 ]
SizeofLine == 1024

\* fgets( szLine, size, f ) on the unread characters rest of f: at most size - 1
\* characters, ending after the first newline
FgetsLength(rest, size) ==
    LET most == IF Len(rest) < size - 1 THEN Len(rest) ELSE size - 1
        newlines == {k \in 1 .. most : rest[k] = 10}
    IN  IF newlines = {} THEN most
        ELSE CHOOSE k \in newlines : \A j \in newlines : k <= j

Fgets(rest, size) == SubSeq(rest, 1, FgetsLength(rest, size))

\* Obfuscate( szData ): szData[i] = szData[i] ^ 1 for i < strlen( szData )
Obfuscate(szData) == [i \in 1 .. Len(szData) |-> Xor(szData[i], 1)]

\* strlen( sz ) of the characters sz that are followed by a terminating 0
Strlen(sz) ==
    LET zeros == {k \in 1 .. Len(sz) : sz[k] = 0}
    IN  IF zeros = {} THEN Len(sz)
        ELSE (CHOOSE k \in zeros : \A j \in zeros : k <= j) - 1

\* The characters fprintf( f, "%s", sz ) appends
PrintfS(sz) == SubSeq(sz, 1, Strlen(sz))

\* Lines an output file is made of: record lines as the dump routines write them
\* (printable characters, characters above 0x7F, a character 0x01 and a
\* character 0x0B as the low byte of a wide character of a cached name), an
\* empty line, and a last line without newline
XorLines ==
    { <<65, 58, 53, 48, 48, 58, 70, 70, 10>>,
      <<97, 126, 32, 200, 255, 10>>,
      <<10>>,
      <<66, 1, 67, 58, 48, 10>>,
      <<68, 11, 69, 10>>,
      <<71, 72>> }

\* A file of more than SizeofLine characters: 47 lines of 22 characters
LongFile ==
    [k \in 1 .. 1034 |-> IF k % 22 = 0 THEN 10 ELSE 48 + (k % 22)]

XorFiles ==
    {<<>>, LongFile} \cup XorLines
        \cup {a \o b : a \in {l \in XorLines : l[Len(l)] = 10}, b \in XorLines}

XorInit ==
    /\ xpc = "EncryptOutputFile"
    /\ fileOriginal \in XorFiles
    /\ pInputFile = fileOriginal
    /\ szOutputFile = <<>>
    /\ fileObfuscated = <<>>
    /\ fileRestored = <<>>

XorIdle ==
    /\ xpc = "idle" /\ fileOriginal = <<>> /\ pInputFile = <<>>
    /\ szOutputFile = <<>> /\ fileObfuscated = <<>> /\ fileRestored = <<>>

\* One pass of while ( fgets( szLine, sizeof( szLine ), pInputFile ) != NULL ):
\* fprintf( pOutputFile, "%s", Obfuscate( szLine ) ).  The file
\* <name>.Obfuscated is taken to open.
Xor_Fgets ==
    /\ xpc \in {"EncryptOutputFile", "DecryptOutputFile"}
    /\ pInputFile # <<>>
    /\ \E szLine \in {Fgets(pInputFile, SizeofLine)} :
         /\ pInputFile' = SubSeq(pInputFile, Len(szLine) + 1, Len(pInputFile))
         /\ szOutputFile' = szOutputFile \o PrintfS(Obfuscate(szLine))
    /\ UNCHANGED <<xpc, fileOriginal, fileObfuscated, fileRestored>>
    /\ UNCHANGED notXor

\* fgets returns NULL: fclose, CopyFile( szOutputFile, szFile, FALSE ) and
\* DeleteFile.  After EncryptOutputFile the file is fetched and
\* DecryptOutputFile is run on it.
Xor_CopyFile ==
    /\ xpc \in {"EncryptOutputFile", "DecryptOutputFile"}
    /\ pInputFile = <<>>
    /\ szOutputFile' = <<>>
    /\ IF xpc = "EncryptOutputFile"
       THEN /\ fileObfuscated' = szOutputFile
            /\ pInputFile' = szOutputFile
            /\ fileRestored' = fileRestored
            /\ xpc' = "DecryptOutputFile"
       ELSE /\ fileRestored' = szOutputFile
            /\ pInputFile' = pInputFile
            /\ fileObfuscated' = fileObfuscated
            /\ xpc' = "done"
    /\ UNCHANGED <<fileOriginal>>
    /\ UNCHANGED notXor

XorNext ==
    \/ Xor_Fgets
    \/ Xor_CopyFile

----------------------------------------------------------------------------
\* The offsets of the fields of a cache record: the arithmetic of DumpPWCache
\* (DumpExt.c) on the two length bytes of a value

\* The values of the length byte of the DNS domain that are tried
DnsLens == {0, 254, 255}

\* k after for ( j = 0; j < len; j = j + 2 ) { sz[k] = ...; k++; }: the index
\* sz[k] = '\0' writes to
NulIndex(len) == (len + 1) \div 2

\* The highest base + j of for ( j = 0; j < len; j = j + 2 ); -1 when len is 0
LastIndexRead(base, len) ==
    IF len = 0 THEN 0 - 1 ELSE base + 2 * (((len + 1) \div 2) - 1)

LayoutInit ==
    /\ opc = "if"
    /\ usernameLen \in 0 .. 255
    /\ domainLen \in 0 .. 255
    /\ dnsDomainLen \in DnsLens
    /\ dwJoke = <<0, 0>>
    /\ domainOffset = 0
    /\ dnsOffset = 0
    /\ nulIndex = <<0, 0, 0>>
    /\ lastRead = 0 - 1

LayoutIdle ==
    /\ opc = "idle" /\ usernameLen = 0 /\ domainLen = 0
    /\ dwJoke = <<0, 0>> /\ domainOffset = 0 /\ dnsOffset = 0
    /\ dnsDomainLen = 0 /\ nulIndex = <<0, 0, 0>> /\ lastRead = 0 - 1

\* dwUsername = bCacheVal[0], dwDomain = bCacheVal[2], dwDNSDomain = bCacheVal[60];
\* if ( dwUsername != 0 ) is false: the value is passed over
Layout_Skip ==
    /\ opc = "if"
    /\ usernameLen = 0
    /\ opc' = "next"
    /\ lastRead' = 60
    /\ UNCHANGED <<usernameLen, domainLen, dwJoke, domainOffset, dnsOffset>>
    /\ UNCHANGED <<dnsDomainLen, nulIndex>>
    /\ UNCHANGED notLayout

\* The session key is made of bCacheVal[64 .. 79];
\* dwJoke[0] = 2 * ( ( dwUsername / 2 ) % 2 ); dwJoke[1] likewise of dwDomain
Layout_Joke ==
    /\ opc = "if"
    /\ usernameLen # 0
    /\ dwJoke' = <<Joke(usernameLen), Joke(domainLen)>>
    /\ opc' = "copy"
    /\ lastRead' = 79
    /\ UNCHANGED <<usernameLen, domainLen, domainOffset, dnsOffset>>
    /\ UNCHANGED <<dnsDomainLen, nulIndex>>
    /\ UNCHANGED notLayout

\* The three copy loops: the domain is read from 168 + dwUsername + dwJoke[0], the
\* DNS domain from 168 + dwUsername + dwJoke[0] + dwDomain + dwJoke[1]; each loop
\* is followed by the write of '\0' at the index k it ended with; bCacheVal[96 .. 111]
\* is printed
Layout_Copy ==
    /\ opc = "copy"
    /\ domainOffset' = DomainBase(usernameLen)
    /\ dnsOffset' = DnsBase(usernameLen, domainLen)
    /\ nulIndex' = <<NulIndex(usernameLen), NulIndex(domainLen), NulIndex(dnsDomainLen)>>
    /\ lastRead' = Max({111, LastIndexRead(168, usernameLen),
                         LastIndexRead(DomainBase(usernameLen), domainLen),
                         LastIndexRead(DnsBase(usernameLen, domainLen), dnsDomainLen)})
    /\ opc' = "next"
    /\ UNCHANGED <<usernameLen, domainLen, dwJoke, dnsDomainLen>>
    /\ UNCHANGED notLayout

LayoutNext ==
    \/ Layout_Skip
    \/ Layout_Joke
    \/ Layout_Copy

----------------------------------------------------------------------------
\* lsadump2: main and ReceiveOutput (lsadump2.c) and the pipe end of the injected
\* DumpLsa (dumplsa.c)

\* DumpLsa sends at most MaxChunks pieces of text
MaxChunks == 2

\* if (!hPipe): the handle is zero.  CreateNamedPipe returns a pipe handle or
\* INVALID_HANDLE_VALUE, which is -1
HandleIsZero(h) == h = "NULL"

LsdInit ==
    /\ l2pc = "CreateThread"
    /\ rpc = "none"
    /\ hPipe = "unset"
    /\ hEvent \in {"nonsignaled", "NULL"}
    /\ dwErr = "ERROR_SUCCESS"
    /\ dlpc = "none"
    /\ pipeClient = "none"
    /\ pipeChunks = 0
    /\ dlSent = 0
    /\ pipeAtInject = "not called"

LsdIdle ==
    /\ l2pc = "idle" /\ rpc = "none" /\ hPipe = "unset" /\ hEvent = "NULL"
    /\ dwErr = "ERROR_SUCCESS" /\ dlpc = "none" /\ pipeClient = "none"
    /\ pipeChunks = 0 /\ dlSent = 0 /\ pipeAtInject = "not called"

\* exit (1) ends the process and with it the receive thread
ExitEnds(r) == IF r \in {"none", "returned"} THEN r ELSE "ended"

\* main: hEvent = CreateEvent (NULL, 0, 0, NULL); hReceiveThread = CreateThread (...);
\* if (!hReceiveThread) exit (1)
Lsd_CreateThread ==
    /\ l2pc = "CreateThread"
    /\ \E ok \in BOOLEAN :
         IF ok THEN rpc' = "CreateNamedPipe" /\ l2pc' = "WaitEvent"
               ELSE rpc' = rpc /\ l2pc' = "exit"
    /\ UNCHANGED <<hPipe, hEvent, dwErr, dlpc, pipeClient, pipeChunks, dlSent,
                   pipeAtInject>>
    /\ UNCHANGED notLsd

\* main: if (WaitForSingleObject (hEvent, 10000) != ERROR_SUCCESS) exit (1).  The
\* wait ends with the event signalled (it is an auto-reset event), or fails at once
\* on a NULL handle, or times out
Lsd_WaitEvent ==
    /\ l2pc = "WaitEvent"
    /\ \/ /\ hEvent = "signaled"
          /\ hEvent' = "nonsignaled"
          /\ l2pc' = "InjectDll"
          /\ rpc' = rpc
       \/ /\ hEvent # "signaled"
          /\ hEvent' = hEvent
          /\ l2pc' = "exit"
          /\ rpc' = ExitEnds(rpc)
    /\ UNCHANGED <<hPipe, dwErr, dlpc, pipeClient, pipeChunks, dlSent, pipeAtInject>>
    /\ UNCHANGED notLsd

\* main: InjectDll (hLsassProc) is called.  It fails before the thunk calls
\* DumpLsa, or DumpLsa runs in the target while InjectDll waits for the remote thread
Lsd_InjectDll ==
    /\ l2pc = "InjectDll"
    /\ pipeAtInject' = hPipe
    /\ \E runs \in BOOLEAN :
         IF runs THEN dlpc' = "CreateFile" /\ l2pc' = "WaitRemote"
                 ELSE dlpc' = dlpc /\ l2pc' = "WaitThread"
    /\ UNCHANGED <<rpc, hPipe, hEvent, dwErr, pipeClient, pipeChunks, dlSent>>
    /\ UNCHANGED notLsd

\* InjectDll: WaitForSingleObject (hRemoteThread, INFINITE) returns and so does
\* InjectDll
Lsd_InjectDllReturn ==
    /\ l2pc = "WaitRemote"
    /\ dlpc = "return"
    /\ l2pc' = "WaitThread"
    /\ UNCHANGED <<rpc, hPipe, hEvent, dwErr, dlpc, pipeClient, pipeChunks, dlSent,
                   pipeAtInject>>
    /\ UNCHANGED notLsd

\* main: WaitForSingleObject (hReceiveThread, INFINITE); return 0
Lsd_WaitThread ==
    /\ l2pc = "WaitThread"
    /\ rpc = "returned"
    /\ l2pc' = "return"
    /\ UNCHANGED <<rpc, hPipe, hEvent, dwErr, dlpc, pipeClient, pipeChunks, dlSent,
                   pipeAtInject>>
    /\ UNCHANGED notLsd

\* ReceiveOutput: hPipe = CreateNamedPipe (...); if (!hPipe) return; SetEvent (hEvent)
Rcv_CreateNamedPipe ==
    /\ rpc = "CreateNamedPipe"
    /\ \E h \in {"open", "INVALID_HANDLE_VALUE"} :
         /\ hPipe' = h
         /\ IF HandleIsZero(h)
            THEN rpc' = "returned" /\ hEvent' = hEvent
            ELSE /\ rpc' = "ConnectNamedPipe"
                 /\ hEvent' = IF hEvent = "NULL" THEN hEvent ELSE "signaled"
    /\ UNCHANGED <<l2pc, dwErr, dlpc, pipeClient, pipeChunks, dlSent, pipeAtInject>>
    /\ UNCHANGED notLsd

\* ReceiveOutput: if (ConnectNamedPipe (hPipe, NULL) || GetLastError () ==
\* ERROR_PIPE_CONNECTED) ... else { CloseHandle (hPipe); return; }.  On a pipe the
\* call waits for a client; it fails on a handle that is no pipe, and on a pipe
\* whose client has come and gone (ERROR_NO_DATA)
Rcv_ConnectNamedPipe ==
    /\ rpc = "ConnectNamedPipe"
    /\ \/ /\ hPipe = "open" /\ pipeClient = "connected"
          /\ rpc' = "ReadFile" /\ hPipe' = hPipe
       \/ /\ hPipe = "open" /\ pipeClient = "closed"
          /\ rpc' = "returned" /\ hPipe' = "closed"
       \/ /\ hPipe # "open"
          /\ rpc' = "returned" /\ hPipe' = hPipe
    /\ UNCHANGED <<l2pc, hEvent, dwErr, dlpc, pipeClient, pipeChunks, dlSent,
                   pipeAtInject>>
    /\ UNCHANGED notLsd

\* ReceiveOutput: one pass of do { if (ReadFile (...)) print; else dwErr =
\* GetLastError (); } while (dwErr != ERROR_BROKEN_PIPE); after the loop
\* DisconnectNamedPipe, CloseHandle, return.  A read takes what was sent, waits
\* while nothing was and the client is there, fails with ERROR_BROKEN_PIPE once the
\* client has closed and all was read, and may fail with another error
Rcv_ReadFile ==
    /\ rpc = "ReadFile"
    /\ \/ /\ pipeChunks > 0
          /\ pipeChunks' = 0
          /\ UNCHANGED <<dwErr, rpc, hPipe>>
       \/ /\ pipeChunks = 0 /\ pipeClient = "closed"
          /\ dwErr' = "ERROR_BROKEN_PIPE"
          /\ rpc' = "returned" /\ hPipe' = "closed"
          /\ pipeChunks' = pipeChunks
       \/ /\ dwErr' = "other"
          /\ UNCHANGED <<pipeChunks, rpc, hPipe>>
    /\ UNCHANGED <<l2pc, hEvent, dlpc, pipeClient, dlSent, pipeAtInject>>
    /\ UNCHANGED notLsd

\* DumpLsa: hPipe = CreateFile (szPipeName, GENERIC_WRITE, 0, NULL, OPEN_EXISTING,
\* ...); if (hPipe == INVALID_HANDLE_VALUE) goto exit
DumpLsa_CreateFile ==
    /\ dlpc = "CreateFile"
    /\ \E ok \in (IF hPipe = "open" /\ pipeClient = "none" THEN BOOLEAN ELSE {FALSE}) :
         IF ok THEN pipeClient' = "connected" /\ dlpc' = "SendText"
               ELSE pipeClient' = pipeClient /\ dlpc' = "return"
    /\ UNCHANGED <<l2pc, rpc, hPipe, hEvent, dwErr, pipeChunks, dlSent, pipeAtInject>>
    /\ UNCHANGED notLsd

\* DumpLsa: SendText (hPipe, ...) and dump_bytes (hPipe, ...)
DumpLsa_SendText ==
    /\ dlpc = "SendText"
    /\ \/ /\ dlSent < MaxChunks
          /\ dlSent' = dlSent + 1
          /\ pipeChunks' = pipeChunks + 1
          /\ dlpc' = dlpc
       \/ /\ dlpc' = "CloseHandle"
          /\ UNCHANGED <<dlSent, pipeChunks>>
    /\ UNCHANGED <<l2pc, rpc, hPipe, hEvent, dwErr, pipeClient, pipeAtInject>>
    /\ UNCHANGED notLsd

\* DumpLsa, exit: FlushFileBuffers (hPipe); CloseHandle (hPipe); return theRc
DumpLsa_CloseHandle ==
    /\ dlpc = "CloseHandle"
    /\ pipeClient' = "closed"
    /\ dlpc' = "return"
    /\ UNCHANGED <<l2pc, rpc, hPipe, hEvent, dwErr, pipeChunks, dlSent, pipeAtInject>>
    /\ UNCHANGED notLsd

LsdNext ==
    \/ Lsd_CreateThread
    \/ Lsd_WaitEvent
    \/ Lsd_InjectDll
    \/ Lsd_InjectDllReturn
    \/ Lsd_WaitThread
    \/ Rcv_CreateNamedPipe
    \/ Rcv_ConnectNamedPipe
    \/ Rcv_ReadFile
    \/ DumpLsa_CreateFile
    \/ DumpLsa_SendText
    \/ DumpLsa_CloseHandle

----------------------------------------------------------------------------
\* The way of the four category flags: RunPWDumpX (PWDumpX.c), ServiceMain,
\* InjectDLL and LsaThreadFunction (DumpSvc.c), DumpLSAInfo (DumpExt.c).  A tuple
\* of four holds, in this order, what belongs to bDumpPWCache, bDumpLSASecrets,
\* bDumpPWHashes and bDumpPWHistoryHashes.

\* CHAR *pArguments[ 3 ]
SizeofArguments == 3

\* strcpy( sz, "FALSE" ); if ( *b ) strcpy( sz, "TRUE" );
FlagText(b) == IF b THEN "TRUE" ELSE "FALSE"

\* b = FALSE; if ( strcmp( sz, "TRUE" ) == 0 ) b = TRUE;
TextFlag(sz) == sz = "TRUE"

\* What the element past the end of pArguments may share its place with: nothing
\* that is used later, the first bytes of szDumpPWHistoryHashes, or schService
PastArguments == {"unused", "szDumpPWHistoryHashes", "schService"}

FlagInit ==
    /\ fpc = "RunPWDumpX"
    /\ flagsCmd \in [1 .. 4 -> BOOLEAN]
    /\ szFlagText = <<>>
    /\ pArgumentsWritten = <<>>
    /\ pastArguments \in PastArguments
    /\ svcArgv = <<>>
    /\ flagsSvc = <<>>
    /\ flagsThreadArgs = <<>>
    /\ flagsEngine = <<>>

FlagIdle ==
    /\ fpc = "idle" /\ flagsCmd = <<>> /\ szFlagText = <<>> /\ pArgumentsWritten = <<>>
    /\ pastArguments = "unused" /\ svcArgv = <<>> /\ flagsSvc = <<>>
    /\ flagsThreadArgs = <<>> /\ flagsEngine = <<>>

\* RunPWDumpX: the four strings are set from the flags and pArguments[0] ..
\* pArguments[3] are assigned.  The last assignment is past the end of the array:
\* it overwrites what shares that place.
Flag_RunPWDumpX ==
    /\ fpc = "RunPWDumpX"
    /\ szFlagText' = [k \in 1 .. 4 |->
                        IF k = 4 /\ pastArguments = "szDumpPWHistoryHashes"
                        THEN "overwritten" ELSE FlagText(flagsCmd[k])]
    /\ pArgumentsWritten' = <<0, 1, 2, 3>>
    /\ fpc' = "StartService"
    /\ UNCHANGED <<flagsCmd, pastArguments, svcArgv, flagsSvc, flagsThreadArgs,
                   flagsEngine>>
    /\ UNCHANGED notFlag

\* RunPWDumpX: StartService( schService, 4, pArguments ): the service's
\* ServiceMain is given the service name followed by the four strings
Flag_StartService ==
    /\ fpc = "StartService"
    /\ \E ok \in (IF pastArguments = "schService" THEN {FALSE} ELSE BOOLEAN) :
         IF ok THEN svcArgv' = <<"PWDumpX">> \o szFlagText /\ fpc' = "ServiceMain"
               ELSE svcArgv' = svcArgv /\ fpc' = "not started"
    /\ UNCHANGED <<flagsCmd, szFlagText, pArgumentsWritten, pastArguments, flagsSvc,
                   flagsThreadArgs, flagsEngine>>
    /\ UNCHANGED notFlag

\* ServiceMain: the four strings are copied from argv[1] .. argv[4] and compared
\* with "TRUE"
Flag_ServiceMain ==
    /\ fpc = "ServiceMain"
    /\ flagsSvc' = [k \in 1 .. 4 |-> TextFlag(svcArgv[k + 1])]
    /\ fpc' = "InjectDLL"
    /\ UNCHANGED <<flagsCmd, szFlagText, pArgumentsWritten, pastArguments, svcArgv,
                   flagsThreadArgs, flagsEngine>>
    /\ UNCHANGED notFlag

\* InjectDLL: ThreadArgs.bDumpPWCache = *bDumpPWCache; and the three others
Flag_InjectDLL ==
    /\ fpc = "InjectDLL"
    /\ flagsThreadArgs' = flagsSvc
    /\ fpc' = "LsaThreadFunction"
    /\ UNCHANGED <<flagsCmd, szFlagText, pArgumentsWritten, pastArguments, svcArgv,
                   flagsSvc, flagsEngine>>
    /\ UNCHANGED notFlag

\* LsaThreadFunction: pDumpLSAInfo( pThreadArgs->bDumpPWCache,
\* pThreadArgs->bDumpLSASecrets, pThreadArgs->bDumpPWHashes,
\* pThreadArgs->bDumpPWHistoryHashes )
Flag_LsaThreadFunction ==
    /\ fpc = "LsaThreadFunction"
    /\ flagsEngine' = flagsThreadArgs
    /\ fpc' = "DumpLSAInfo"
    /\ UNCHANGED <<flagsCmd, szFlagText, pArgumentsWritten, pastArguments, svcArgv,
                   flagsSvc, flagsThreadArgs>>
    /\ UNCHANGED notFlag

FlagNext ==
    \/ Flag_RunPWDumpX
    \/ Flag_StartService
    \/ Flag_ServiceMain
    \/ Flag_InjectDLL
    \/ Flag_LsaThreadFunction

----------------------------------------------------------------------------
\* Specifications

InitInject == InjInit /\ OrchIdle /\ CacheIdle /\ SamIdle /\ HashIdle /\ SecIdle
    /\ InfoIdle /\ DumpIdle /\ XorIdle /\ LayoutIdle /\ LsdIdle /\ FlagIdle

SpecInject == InitInject /\ [][InjNext]_vars

InitOrch == OrchInit /\ InjIdle /\ CacheIdle /\ SamIdle /\ HashIdle /\ SecIdle
    /\ InfoIdle /\ DumpIdle /\ XorIdle /\ LayoutIdle /\ LsdIdle /\ FlagIdle

SpecOrch == InitOrch /\ [][OrchNext]_vars

InitCache == CacheInit /\ InjIdle /\ OrchIdle /\ SamIdle /\ HashIdle /\ SecIdle
    /\ InfoIdle /\ DumpIdle /\ XorIdle /\ LayoutIdle /\ LsdIdle /\ FlagIdle

SpecCache == InitCache /\ [][CacheNext]_vars

InitSam == SamInit /\ InjIdle /\ OrchIdle /\ CacheIdle /\ HashIdle /\ SecIdle
    /\ InfoIdle /\ DumpIdle /\ XorIdle /\ LayoutIdle /\ LsdIdle /\ FlagIdle

SpecSam == InitSam /\ [][SamNext]_vars

InitHash == HashInit /\ InjIdle /\ OrchIdle /\ CacheIdle /\ SamIdle /\ SecIdle
    /\ InfoIdle /\ DumpIdle /\ XorIdle /\ LayoutIdle /\ LsdIdle /\ FlagIdle

SpecHash == InitHash /\ [][HashNext]_vars

InitSec == SecInit /\ InjIdle /\ OrchIdle /\ CacheIdle /\ SamIdle /\ HashIdle
    /\ InfoIdle /\ DumpIdle /\ XorIdle /\ LayoutIdle /\ LsdIdle /\ FlagIdle

SpecSec == InitSec /\ [][SecNext]_vars

InitInfo == InfoInit /\ OrchIdle /\ CacheIdle /\ SamIdle /\ HashIdle /\ SecIdle
    /\ InjIdle /\ DumpIdle /\ XorIdle /\ LayoutIdle /\ LsdIdle /\ FlagIdle

SpecInfo == InitInfo /\ [][InfoNext]_vars

InitDump == DumpInit /\ OrchIdle /\ CacheIdle /\ SamIdle /\ HashIdle /\ SecIdle
    /\ InfoIdle /\ InjIdle /\ XorIdle /\ LayoutIdle /\ LsdIdle /\ FlagIdle

SpecDump == InitDump /\ [][DumpNext]_vars

InitXor == XorInit /\ OrchIdle /\ CacheIdle /\ SamIdle /\ HashIdle /\ SecIdle
    /\ InfoIdle /\ DumpIdle /\ InjIdle /\ LayoutIdle /\ LsdIdle /\ FlagIdle

SpecXor == InitXor /\ [][XorNext]_vars

InitLayout == LayoutInit /\ OrchIdle /\ CacheIdle /\ SamIdle /\ HashIdle /\ SecIdle
    /\ InfoIdle /\ DumpIdle /\ XorIdle /\ InjIdle /\ LsdIdle /\ FlagIdle

SpecLayout == InitLayout /\ [][LayoutNext]_vars

InitLsd == LsdInit /\ OrchIdle /\ CacheIdle /\ SamIdle /\ HashIdle /\ SecIdle
    /\ InfoIdle /\ DumpIdle /\ XorIdle /\ LayoutIdle /\ InjIdle /\ FlagIdle

SpecLsd == InitLsd /\ [][LsdNext]_vars

InitFlag == FlagInit /\ OrchIdle /\ CacheIdle /\ SamIdle /\ HashIdle /\ SecIdle
    /\ InfoIdle /\ DumpIdle /\ XorIdle /\ LayoutIdle /\ LsdIdle /\ InjIdle

SpecFlag == InitFlag /\ [][FlagNext]_vars

\* The routine runs on one thread of the host process, which is scheduled until
\* the routine returns
SpecSamFair == InitSam /\ [][SamNext]_vars /\ WF_vars(SamNext)

----------------------------------------------------------------------------
\* Claims

\* C1: whenever Inject has returned after the remote allocation succeeded,
\* on a failure path or not, the remote allocation has been freed.
C1_FreedOnEveryPath ==
    (ipc = "return" /\ pRemoteAlloc # "null") => pRemoteAlloc = "freed"

\* C3: once the remote thread was created, the remote allocation is never
\* freed while the thread runs, the steps after the wait are only reached with
\* the thread terminated, and the routine returns only with the thread
\* terminated and the allocation freed.
C3_WaitThenFreeThenReturn ==
    /\ (pRemoteAlloc = "freed" => remoteThread # "running")
    /\ (remoteThread = "running" => ipc = "Wait")
    /\ ((ipc = "return" /\ remoteThread # "none")
           => (remoteThread = "terminated" /\ pRemoteAlloc = "freed"))

\* C3 witness: a call whose thread was created has returned
C3_Witness ==
    /\ ipc = "return" /\ remoteThread = "terminated"
    /\ pRemoteAlloc = "freed" /\ hRemoteThread = "closed"

C5_Deterministic ==
    \A a, b \in 1 .. Len(cacheHist) :
        cacheHist[a].value = cacheHist[b].value
            => /\ cacheHist[a].emitted = cacheHist[b].emitted
               /\ cacheHist[a].line = cacheHist[b].line

\* C6: a value of 96 bytes or less, or one whose username length is 0,
\* emits no line and has no byte decrypted.
C6_ShortOrNoUserFails ==
    \A a \in 1 .. Len(cacheHist) :
        (cacheHist[a].value.size <= 96 \/ cacheHist[a].value.u = 0)
            => (~cacheHist[a].emitted /\ cacheHist[a].crypted = 0)

\* C7: a value longer than 96 bytes whose length fields carry the extraction
\* past its end (168 + usernameLen + pad1 + domainLen + pad2 + dnsDomainLen
\* exceeds its length) emits no line and has no byte at or past its length
\* read.
C7_OutOfBoundsFails ==
    \A a \in 1 .. Len(cacheHist) :
        LET v == cacheHist[a].value
            end == 168 + v.u + 2 * ((v.u \div 2) % 2)
                       + v.d + 2 * ((v.d \div 2) % 2) + v.n
        IN  (v.size > 96 /\ v.u # 0 /\ end > v.size)
                => (~cacheHist[a].emitted /\ cacheHist[a].maxRead < v.size)

\* C8 as stated: for the value decoded last, if it is longer than 96 bytes,
\* has a username and holds all its fields, the username printed is the bytes
\* of the decrypted record at 168, 170, ..., the domain those from
\* 168 + usernameLen + pad1 and the DNS domain those from
\* 168 + usernameLen + pad1 + domainLen + pad2, one character per two bytes,
\* with pad1 and pad2 as the code's dwJoke; with lengths 8, 4, 0 pad1 is 0,
\* pad2 is 2, the username has 4 characters and the domain 2.
C8_FieldsAtOffsets ==
    (Len(cacheHist) > 0 /\ cacheHist[Len(cacheHist)].value.size = 200
        /\ cacheHist[Len(cacheHist)].value.u # 0) =>
    LET h == cacheHist[Len(cacheHist)]
        u == h.value.u
        d == h.value.d
        n == h.value.n
        pad1 == 2 * ((u \div 2) % 2)
        pad2 == 2 * ((d \div 2) % 2)
        chars(base, len) ==
            [k \in 1 .. ((len + 1) \div 2) |-> bCacheVal[base + 2 * (k - 1) + 1]]
    IN  /\ h.emitted
        /\ h.line.username = chars(168, u)
        /\ h.line.domain = chars(168 + u + pad1, d)
        /\ h.line.dns = chars(168 + u + pad1 + d + pad2, n)
        /\ Joke(u) = pad1 /\ Joke(d) = pad2
        /\ ((u = 8 /\ d = 4 /\ n = 0)
               => /\ Joke(u) = 0 /\ Joke(d) = 2
                  /\ Len(h.line.username) = 4
                  /\ Len(h.line.domain) = 2
                  /\ h.line.dns = <<>>)

\* C8 amended: as above, but each printed field ends before the first of its
\* bytes that is zero, and with lengths 8, 4, 0 both pad1 and pad2 are 0
\* (4 / 2 = 2 and 2 mod 2 = 0); with the text ABCD XY the username is ABCD,
\* the domain XY (read from offset 176) and the DNS domain empty.
C8_FieldsAtOffsetsToFirstZero ==
    (Len(cacheHist) > 0 /\ cacheHist[Len(cacheHist)].value.size = 200
        /\ cacheHist[Len(cacheHist)].value.u # 0) =>
    LET h == cacheHist[Len(cacheHist)]
        u == h.value.u
        d == h.value.d
        n == h.value.n
        pad1 == 2 * ((u \div 2) % 2)
        pad2 == 2 * ((d \div 2) % 2)
        chars(base, len) ==
            [k \in 1 .. ((len + 1) \div 2) |-> bCacheVal[base + 2 * (k - 1) + 1]]
        cut(printed, all) ==
            /\ Len(printed) <= Len(all)
            /\ \A k \in 1 .. Len(printed) : printed[k] = all[k] /\ printed[k] # 0
            /\ (Len(printed) < Len(all) => all[Len(printed) + 1] = 0)
    IN  /\ h.emitted
        /\ cut(h.line.username, chars(168, u))
        /\ cut(h.line.domain, chars(168 + u + pad1, d))
        /\ cut(h.line.dns, chars(168 + u + pad1 + d + pad2, n))
        /\ Joke(u) = pad1 /\ Joke(d) = pad2
        /\ ((u = 8 /\ d = 4 /\ n = 0 /\ h.value.text = 1)
               => /\ Joke(u) = 0 /\ Joke(d) = 0
                  /\ h.line.username = <<65, 66, 67, 68>>
                  /\ h.line.domain = <<bCacheVal[177], bCacheVal[179]>>
                  /\ h.line.domain = <<88, 89>>
                  /\ h.line.dns = <<>>)

\* C8 witness: the record with lengths 8, 4, 0 was decoded after another
\* record and its line emitted
C8_Witness ==
    /\ Len(cacheHist) > 1
    /\ cacheHist[Len(cacheHist)].value = [size |-> 200, u |-> 8, d |-> 4, n |-> 0, text |-> 1]
    /\ cacheHist[Len(cacheHist)].emitted
    /\ cacheOut[Len(cacheOut)].domain = <<88, 89>>

\* C9: in both account routines, on every path, no close is made on a handle
\* that is not open, no more closes than opens are made of the account-store
\* connection, the domain handle and the user handles, a user handle is opened
\* only when every earlier one has been closed, and at the return every one
\* opened has been closed.
C9_HandlesClosedOnce ==
    /\ "close of a handle that is not open" \notin samBad
    /\ \A k \in {"sam", "domain", "user"} :
         /\ samCloses[k] <= samOpens[k]
         /\ samOpens[k] <= samCloses[k] + 1
         /\ (spc = "return" => samCloses[k] = samOpens[k])
    /\ (spc = "SamrOpenUser" => samCloses["user"] = samOpens["user"])
    /\ (spc = "return" => (hSAM # "open" /\ hDomain # "open" /\ hUser # "open"))

\* C9 witness: a routine has returned after two users were opened, the query
\* of the second having failed
C9_Witness ==
    /\ spc = "return"
    /\ samOpens["sam"] = 1 /\ samOpens["domain"] = 1
    /\ samOpens["user"] >= 2 /\ samCloses["user"] = samOpens["user"]
    /\ samOpens["info"] < samOpens["user"]
    /\ pHashData = "null"

\* C10: in both account routines, on every path and for every blob size, no
\* free is made on a buffer that is not held, no buffer is used when it is
\* not held, no more frees than buffers returned are made of the enumeration
\* pages, the hash info buffers and the private-data blobs, and at the return
\* every buffer returned has been freed.
C10_BuffersFreedOnce ==
    /\ "free of a buffer that is not held" \notin samBad
    /\ "use of a buffer that is not held" \notin samBad
    /\ \A k \in {"enum", "info", "blob"} :
         /\ samCloses[k] <= samOpens[k]
         /\ (spc = "return" => samCloses[k] = samOpens[k])

\* C2: for every host-list length and every interleaving of main with the
\* worker threads, the number of threads begun that have not finished their
\* host run never exceeds MAX_THREADS.
C2_CapNeverExceeded == tRun <= MAX_THREADS

\* C2 witness: the cap is reached exactly while main still has a host to start
C2_Witness == tRun = MAX_THREADS /\ mpc = "spin" /\ nThreads = MAX_THREADS

\* C11: the enumerate call is made again, with the cursor the previous call
\* left, exactly when the last status is 0x105; the entries of the pages
\* returned with status success or 0x105 are each passed to SamrOpenUser once,
\* in the order of the account store; the loop is left after the first call
\* whose status is not 0x105, and the routine returns.
C11_PagedEnumeration ==
    /\ [](/\ samSeen = [k \in 1 .. Len(samSeen) |-> FirstRid + k - 1]
          /\ (spc \in {"FreeEnum", "While", "CloseDomain"} => Len(samSeen) = dwEnum)
          /\ (spc = "CloseDomain" => nEnumStatus # STATUS_MORE_ENTRIES))
    /\ [][/\ (spc = "While"
               => (spc' = "Enumerate" <=> nEnumStatus = STATUS_MORE_ENTRIES))
          /\ ((spc' = "Enumerate" /\ spc # "Enumerate")
               => spc \in {"SamrOpenDomain", "While"})]_vars
    /\ <>(spc = "return")

\* C11 witness: a run of two calls or more, with three entries or more, has
\* returned
C11_Witness ==
    /\ spc = "return" /\ dwEnumCalls >= 2 /\ nEnumStatus = 0
    /\ Len(samSeen) >= 3 /\ Len(samSeen) = dwEnum

\* C12: in a line of current hashes the NT field is the sentinel exactly when
\* bytes 0..15 are 31d6cfe0d16ae931b73c59d7e0c089c0 and is otherwise two hex
\* digits per byte of bytes 0..15; the LM field is the sentinel exactly when
\* bytes 16..31 are aad3b435b51404eeaad3b435b51404ee and is otherwise the hex
\* of bytes 16..31; neither decision looks at the other half.
C12_SentinelIffEmptyHash ==
    hpc = "fprintf" =>
        LET emptyNT == <<49, 214, 207, 224, 209, 106, 233, 49,
                         183, 60, 89, 215, 224, 192, 137, 192>>
            emptyLM == <<170, 211, 180, 53, 181, 20, 4, 238,
                         170, 211, 180, 53, 181, 20, 4, 238>>
            sentinel == <<"N", "O", " ", "P", "A", "S", "S", "W", "O", "R", "D",
                          "*", "*", "*", "*", "*", "*", "*", "*", "*", "*", "*",
                          "*", "*", "*", "*", "*", "*", "*", "*", "*", "*">>
            digit(c) == CHOOSE v \in 0 .. 15 :
                            c = <<"0", "1", "2", "3", "4", "5", "6", "7", "8", "9",
                                  "A", "B", "C", "D", "E", "F">>[v + 1]
            isHexOf(sz, from) ==
                /\ Len(sz) = 32
                /\ \A x \in 1 .. 16 :
                       16 * digit(sz[2 * x - 1]) + digit(sz[2 * x]) = HashData[from + x]
        IN  /\ (szNTHash = sentinel <=> SubSeq(HashData, 1, 16) = emptyNT)
            /\ (szNTHash # sentinel => isHexOf(szNTHash, 0))
            /\ (szLMHash = sentinel <=> SubSeq(HashData, 17, 32) = emptyLM)
            /\ (szLMHash # sentinel => isHexOf(szLMHash, 16))

\* C12 witness: a buffer whose NT half is the empty-password constant and whose
\* LM half is not has been rendered
C12_Witness ==
    /\ hpc = "fprintf"
    /\ SubSeq(HashData, 1, 16) = HalfOfNtWords
    /\ SubSeq(HashData, 17, 32) = WithByte(HalfOfLmWords, 16, 239)
    /\ szNTHash = NoPassword
    /\ szLMHash[1] = "A" /\ szLMHash[32] = "F"

\* C13: for an account whose private-data blob was returned with 60 bytes or
\* less, or with more and a count byte of 0, no history line is appended and
\* no error line is written, and the loop goes on to the next entry.
C13_EmptyHistory ==
    /\ []((/\ samRoutine = "DumpPWHistoryHashes"
           /\ spc \in {"LocalFree", "CloseUser", "NextUser"}
           /\ Len(samOut) >= 1
           /\ "SamIGetPrivateData" \notin samFail
           /\ (dwPrivSize <= 60 \/ dwOffset = 0))
             => (Len(samOut) = 1 /\ samOut[1].hist = 0 /\ samErr = <<>>))
    /\ [][(/\ samRoutine = "DumpPWHistoryHashes"
           /\ Len(samOut) >= 1
           /\ "SamIGetPrivateData" \notin samFail
           /\ (dwPrivSize <= 60 \/ dwOffset = 0))
             => /\ (spc = "LocalFree" => spc' = "CloseUser")
                /\ (spc = "CloseUser" => spc' = "NextUser")
                /\ (spc = "NextUser" => (spc' = "ForUser" /\ si' = si + 1))]_vars

\* C13 witness: such an account, with a blob of more than 60 bytes and a count
\* byte of 0, has been passed
C13_Witness ==
    /\ samRoutine = "DumpPWHistoryHashes" /\ spc = "NextUser"
    /\ Len(samOut) = 1 /\ samFail = {} /\ pHashData = "freed"
    /\ dwPrivSize = 200 /\ dwOffset = 0 /\ dwHashes = 0

\* C14 (as stated): for every blob of more than 60 bytes whose decodes all
\* succeed, floor(blob[0x3C] / 16) history lines are appended, numbered 1 .. n
\* in this order, line j from the ciphertexts of slot base 0x10 * j.
C14_HistoryCount ==
    (/\ samRoutine = "DumpPWHistoryHashes" /\ spc = "LocalFree"
     /\ dwPrivSize > 60
     /\ "SystemFunction025/027" \notin samFail)
        => /\ Len(samOut) = 1 + dwOffset \div 16
           /\ \A j \in 1 .. dwOffset \div 16 :
                  /\ samOut[j + 1].hist = j
                  /\ {samOut[j + 1].lm.at, samOut[j + 1].nt.at}
                        = {16 * j + 68, 16 * j + 68 + dwOffset}

\* C14 (amended): the same for every blob of more than 60 bytes that is also
\* larger than blob[0x3C] + 100 bytes; a blob of more than 60 bytes that is not
\* larger than blob[0x3C] + 100 bytes has no history line.
C14_HistoryCountWhenFits ==
    (/\ samRoutine = "DumpPWHistoryHashes" /\ spc = "LocalFree"
     /\ dwPrivSize > 60
     /\ "SystemFunction025/027" \notin samFail)
        => IF dwPrivSize > dwOffset + 100
           THEN /\ Len(samOut) = 1 + dwOffset \div 16
                /\ \A j \in 1 .. dwOffset \div 16 :
                       /\ samOut[j + 1].hist = j
                       /\ {samOut[j + 1].lm.at, samOut[j + 1].nt.at}
                             = {16 * j + 68, 16 * j + 68 + dwOffset}
           ELSE Len(samOut) = 1

\* C14 witness: a blob of 200 bytes with count byte 32 has given two lines
C14_Witness ==
    /\ samRoutine = "DumpPWHistoryHashes" /\ spc = "LocalFree"
    /\ dwPrivSize = 200 /\ dwOffset = 32
    /\ Len(samOut) = 3 /\ samOut[2].hist = 1 /\ samOut[3].hist = 2

\* C15: in every history line the LM field is the decode of the ciphertext at
\* slot base + 0x44 and the NT field the decode of the ciphertext at slot base
\* + 0x44 + blob[0x3C], both with the Rid of the account in hand.
C15_FieldsOfHistoryLine ==
    \A k \in 1 .. Len(samOut) :
        samOut[k].hist > 0 =>
            /\ samOut[k].rid = sueUsers[si + 1]
            /\ samOut[k].lm = [at |-> 16 * samOut[k].hist + 68, rid |-> sueUsers[si + 1]]
            /\ samOut[k].nt = [at |-> 16 * samOut[k].hist + 68 + dwOffset,
                               rid |-> sueUsers[si + 1]]

\* C16: a secret is opened first with a name length of twice the character
\* count of its name; only if that call fails, one more call is made with
\* Length and MaximumLength raised by 2; no third call is made, and the
\* query is reached only after a call that succeeded.
C16_RetryOnceWithLongerLength ==
    /\ Len(secTries) <= 2
    /\ (Len(secTries) >= 1 =>
           secTries[1].lus = [Length |-> 2 * nameLen, MaximumLength |-> 2 * nameLen])
    /\ (Len(secTries) = 2 =>
           /\ ~secTries[1].ok
           /\ secTries[2].lus = [Length |-> 2 * nameLen + 2,
                                 MaximumLength |-> 2 * nameLen + 2])
    /\ (Len(secTries) = 1 /\ ~secTries[1].ok => qpc = "Retry")
    /\ (qpc \in {"LsarQuerySecret", "Emit", "LsaFreeMemory", "CloseSecret"} =>
           /\ Len(secTries) >= 1
           /\ secTries[Len(secTries)].ok)

\* C16 witness: the first open of a name of 7 characters failed, the second,
\* with length 16, succeeded, and the secret is about to be queried
C16_Witness ==
    /\ qpc = "LsarQuerySecret" /\ nameLen = 7
    /\ Len(secTries) = 2 /\ ~secTries[1].ok /\ secTries[2].ok
    /\ secTries[1].lus.Length = 14 /\ lusSecret.Length = 16
    /\ lusSecret.MaximumLength = 16

\* C17: when both opens of a name failed in DumpLSASecrets or DumpLsa, an
\* error has been recorded for that name, no record has been written for it,
\* and the loop goes on to the next name.
C17_BothOpensFailRecorded ==
    (/\ secRoutine \in {"DumpLSASecrets", "DumpLsa"}
     /\ qpc = "NextName"
     /\ Len(secTries) = 2 /\ ~secTries[2].ok) =>
        /\ \E k \in 1 .. Len(secErr) : secErr[k].i = secI
        /\ \A k \in 1 .. Len(secOut) : secOut[k].i # secI

\* C18: no handle is closed and no buffer freed that is not held; a secret
\* handle and a value buffer are released before the next name is taken; when
\* the routine returns, every secret handle, value buffer and policy handle
\* that was handed out has been released exactly once.
C18_ReleasedOnce ==
    /\ secBad = {}
    /\ \A k \in SecKinds :
           /\ secCloses[k] <= secOpens[k]
           /\ secOpens[k] <= secCloses[k] + 1
    /\ (hSecret = "open" <=> secOpens["secret"] = secCloses["secret"] + 1)
    /\ (lsaData = "live" <=> secOpens["data"] = secCloses["data"] + 1)
    /\ (hPolicy = "open" <=> secOpens["policy"] = secCloses["policy"] + 1)
    /\ (qpc \in {"NextName", "RegEnumKeyW", "RegCloseKey", "ClosePolicy", "Exit"} =>
           /\ secCloses["secret"] = secOpens["secret"]
           /\ secCloses["data"] = secOpens["data"])
    /\ (qpc = "return" => secCloses = secOpens)

\* C18 witness: DumpLsa has returned after two secrets were opened, the query
\* of one failed and the query of the other gave a buffer
C18_Witness ==
    /\ secRoutine = "DumpLsa" /\ qpc = "return"
    /\ secOpens = [k \in SecKinds |-> IF k = "secret" THEN 2 ELSE 1]
    /\ secCloses = secOpens
    /\ \E k \in 1 .. Len(secErr) : secErr[k].text = "LsarQuerySecret failed"

C21_ResourceFailureLogged ==
    (/\ secRoutine = "DumpPWCache" /\ qpc = "return"
     /\ \/ secOpens["policy"] = 0
        \/ (Len(secTries) = 2 /\ ~secTries[2].ok)) =>
        /\ Len(secErr) >= 1
        /\ secOut = <<>>

\* C20: when the open of the user, the query of the hashes or the decode of a
\* history slot has failed for the account in hand, a line has been appended
\* to the error log.
C20_FailuresLogged ==
    samFail \cap {"SamrOpenUser", "SamrQueryInformationUser", "SystemFunction025/027"} # {}
        => Len(samErr) >= 1

\* C22 as stated: when DumpLSAInfo returns, the routines that ran are exactly
\* those whose flag is set, in the order cache, secrets, hashes, history, and
\* no file and no error line belongs to a category whose flag is clear.
C22_RunsIffFlag ==
    lpc = "return" =>
        LET flag == [DumpPWCache |-> bDumpPWCache, DumpLSASecrets |-> bDumpLSASecrets,
                     DumpPWHashes |-> bDumpPWHashes,
                     DumpPWHistoryHashes |-> bDumpPWHistoryHashes]
            Set(c) == flag[c]
        IN  infoRan = SelectSeq(<<"DumpPWCache", "DumpLSASecrets", "DumpPWHashes",
                                  "DumpPWHistoryHashes">>, Set)

\* C22 amended: secrets, hashes and history run exactly when their flag is set;
\* the cache routine runs exactly when its flag is set and the CurrentVersion
\* value was read and starts with a digit above 4; the order is cache,
\* secrets, hashes, history; a category whose flag is clear has no output file
\* and no error line.
C22_RunsIffFlagAndVersion ==
    lpc = "return" =>
        LET flag == [DumpPWCache |-> bDumpPWCache, DumpLSASecrets |-> bDumpLSASecrets,
                     DumpPWHashes |-> bDumpPWHashes,
                     DumpPWHistoryHashes |-> bDumpPWHistoryHashes,
                     DumpLSAInfo |-> bDumpPWCache]
            file == [DumpPWCache |-> "PWCache.txt", DumpLSASecrets |-> "LSASecrets.txt",
                     DumpPWHashes |-> "PWHashes.txt",
                     DumpPWHistoryHashes |-> "PWHistoryHashes.txt"]
            order == <<"DumpPWCache", "DumpLSASecrets", "DumpPWHashes",
                       "DumpPWHistoryHashes">>
            Set(c) == flag[c]
            Runs(c) ==
                /\ flag[c]
                /\ c = "DumpPWCache" =>
                      /\ lReturn = "read"
                      /\ szCurrentVersion # <<>>
                      /\ szCurrentVersion[1] \in {"5", "6", "7", "8", "9"}
        IN  /\ infoRan = SelectSeq(order, Runs)
            /\ infoFiles = [k \in 1 .. Len(SelectSeq(order, Set)) |->
                               file[SelectSeq(order, Set)[k]]]
            /\ \A k \in 1 .. Len(infoErr) : flag[infoErr[k].by]

\* C22 witness: cache and history were requested on a host whose version is
\* 10.0; only the history routine ran, and both files were passed on
C22_Witness ==
    /\ lpc = "return"
    /\ bDumpPWCache /\ ~bDumpLSASecrets /\ ~bDumpPWHashes /\ bDumpPWHistoryHashes
    /\ szCurrentVersion = <<"1", "0", ".", "0">>
    /\ infoRan = <<"DumpPWHistoryHashes">>
    /\ infoFiles = <<"PWCache.txt", "PWHistoryHashes.txt">>

\* C23: the dump of a blob b has ceil(len(b)/16) lines; line k shows the bytes
\* 16(k-1)+1 .. min(16k, len(b)) as one group of a space and two hexadecimal
\* digits per byte, spaces up to column 50, and one character per byte, so
\* that a line of 16 bytes is 16 groups, two spaces and 16 characters; a byte
\* in 0x20..0x7E is shown as itself and any other byte as '.'.
C23_HexDump ==
    dpc = "return" =>
        LET n == Len(dumpIn)
            hex == <<48, 49, 50, 51, 52, 53, 54, 55, 56, 57, 65, 66, 67, 68, 69, 70>>
        IN  /\ Len(dumpLines) = (n + 15) \div 16
            /\ \A k \in 1 .. Len(dumpLines) :
                 LET line == dumpLines[k]
                     first == 16 * (k - 1)
                     cnt == IF n - first >= 16 THEN 16 ELSE n - first
                 IN  /\ Len(line) = 50 + cnt
                     /\ \A i \in 1 .. cnt :
                          LET b == dumpIn[first + i]
                          IN  /\ line[3 * i - 2] = 32
                              /\ line[3 * i - 1] = hex[b \div 16 + 1]
                              /\ line[3 * i] = hex[(b % 16) + 1]
                              /\ line[50 + i] =
                                    IF b >= 32 /\ b <= 126 THEN b ELSE 46
                     /\ \A x \in 3 * cnt + 1 .. 50 : line[x] = 32

\* C23 witness: a blob of 33 bytes counting up from 110, so that 0x7E and 0x7F
\* are both in it, has been dumped in three lines
C23_Witness ==
    /\ dpc = "return"
    /\ Len(dumpIn) = 33 /\ dumpIn[1] = 110 /\ dumpIn[17] = 126 /\ dumpIn[18] = 127
    /\ Len(dumpLines) = 3
    /\ dumpLines[2][51] = 126 /\ dumpLines[2][52] = 46
    /\ Len(dumpLines[3]) = 51

\* C24: for every output file, the file after EncryptOutputFile has the length
\* of the original, and the file after EncryptOutputFile and then
\* DecryptOutputFile is the original, character for character.
C24_RoundTrip ==
    /\ (xpc \in {"DecryptOutputFile", "done"} => Len(fileObfuscated) = Len(fileOriginal))
    /\ (xpc = "done" => fileRestored = fileOriginal)

\* C25 as stated: every line written to the history output for the account in
\* hand carries the suffix _hist_<n> with n >= 1.
C25_OnlySuffixedLines ==
    samRoutine = "DumpPWHistoryHashes" =>
        \A k \in 1 .. Len(samOut) : samOut[k].hist >= 1

\* C25 amended: the lines written to the history output for an account have
\* the fields of a Hashes line with the Rid of the account opened last; the first is
\* the line of the current hashes, with the plain username, and every further
\* line carries the suffix _hist_<n> with n >= 1, n increasing.
C25_CurrentThenSuffixedLines ==
    samRoutine = "DumpPWHistoryHashes" =>
        \A k \in 1 .. Len(samOut) :
            /\ DOMAIN samOut[k] = {"hist", "rid", "lm", "nt"}
            /\ samOut[k].rid = samSeen[Len(samSeen)]
            /\ (k = 1 => samOut[k].hist = 0)
            /\ (k > 1 => samOut[k].hist >= 1 /\ samOut[k].hist > samOut[k - 1].hist)

\* C25 witness: the decode of slot 1 failed, so the lines of the account are
\* the current line and the line _hist_2
C25_Witness ==
    /\ samRoutine = "DumpPWHistoryHashes" /\ spc = "LocalFree"
    /\ "SystemFunction025/027" \in samFail
    /\ Len(samOut) = 2 /\ samOut[1].hist = 0 /\ samOut[2].hist = 2

\* C26: a remote thread exists only after the argument block was written at
\* the base of the allocation and then the thunk at base + sizeof(argument
\* block) + 4; its start address is the address the thunk was written to and
\* its argument the base; after a failed write no thread is created.
C26_ThreadAfterBothWrites ==
    LET size == IF variant = "InjectDLL" THEN 668 ELSE 796
    IN  /\ (remoteThread # "none" \/ lpStartAddress # 0 - 1 =>
               /\ Len(remoteMem) = 2
               /\ remoteMem[1].at = 0 /\ remoteMem[1].from = "args"
               /\ remoteMem[1].size = <<0, size>>
               /\ remoteMem[2].at = size + 4 /\ remoteMem[2].from = "thunk"
               /\ lpStartAddress = remoteMem[2].at
               /\ lpParameter = 0)
        /\ (ipc \in {"return", "exit"} /\ Len(remoteMem) < 2 =>
               remoteThread = "none" /\ hRemoteThread = "null")
        /\ (Len(remoteMem) >= 1 => pRemoteAlloc # "null")

\* C26 witness: InjectDll has started its thread at offset 800 of the allocation
C26_Witness ==
    /\ variant = "InjectDll" /\ remoteThread = "running"
    /\ lpStartAddress = 800 /\ lpParameter = 0
    /\ Len(remoteMem) = 2 /\ remoteMem[2].at = 800

\* C27: when one of the three loader addresses could not be resolved, no remote
\* memory is allocated, nothing is written to the target and no remote thread
\* is created.
C27_UnresolvedLoaderStops ==
    pLoaderFuncs = "NULL" =>
        /\ pRemoteAlloc = "null"
        /\ remoteMem = <<>>
        /\ remoteThread = "none"


\* C28: the thunk calls load-library, resolve-symbol, the entry point and
\* free-library in that order and each at most once; the entry point is called only
\* after the load and the resolution both succeeded; a thunk that has returned has
\* freed the library exactly once when it was loaded, also when the symbol was not
\* resolved, and has freed nothing when the load failed
C28_ThunkCallOrder ==
    LET made(f) == \E k \in DOMAIN thunkCalls : thunkCalls[k] = f
        count(f) == Cardinality({k \in DOMAIN thunkCalls : thunkCalls[k] = f})
        full == <<"LoadLibrary", "GetProcAddress", "entry", "FreeLibrary">>
        unresolved == <<"LoadLibrary", "GetProcAddress", "FreeLibrary">>
    IN  /\ \/ \E n \in 0 .. 4 : thunkCalls = SubSeq(full, 1, n)
           \/ thunkCalls = unresolved
        /\ (made("entry") => hDumpExt # "null" /\ pDumpLSAInfo = "resolved")
        /\ (made("GetProcAddress") \/ made("FreeLibrary") => hDumpExt # "null")
        /\ (tpc = "return" =>
               /\ count("FreeLibrary") = (IF hDumpExt # "null" THEN 1 ELSE 0)
               /\ (hDumpExt # "null" => hDumpExt = "freed")
               /\ (hDumpExt = "null" => thunkCalls = <<"LoadLibrary">>)
               /\ (pDumpLSAInfo = "NULL" => thunkCalls = unresolved)
               /\ (pDumpLSAInfo = "resolved" => thunkCalls = full))

C28_Witness ==
    /\ tpc = "return" /\ remoteThread = "terminated"
    /\ pDumpLSAInfo = "NULL" /\ hDumpExt = "freed"
    /\ thunkCalls = <<"LoadLibrary", "GetProcAddress", "FreeLibrary">>


\* C29: one pass of the loop changes, of what RegQueryValueEx left in bCacheVal,
\* only the bytes at offsets 96 up to the size of the value; the bytes at offsets
\* 0 .. 95 and those from the size of the value on are as the query left them; the
\* bytes changed are the stored ones XORed with the keystream of the key derived
\* from bytes 64 .. 79 as they were before the decryption
C29_DecryptFrame ==
    [][cpc = "loop" /\ Len(cacheHist') = Len(cacheHist) + 1 =>
         \A h \in {cacheHist'[Len(cacheHist')]} :
         \A value \in {Registry[keyId][h.value]} :
         \A before \in {RegQueryValueEx(bCacheVal, value)} :
         \A after \in {bCacheVal'} :
         \A sk \in {Md5(KeyPad(LsaKeys[keyId], Opad)
                         \o Md5(KeyPad(LsaKeys[keyId], Ipad) \o Slice(before, 64, 16)))} :
             /\ Len(after) = BufSize
             /\ Slice(after, 0, 96) = Slice(before, 0, 96)
             /\ \A from \in {Max({96, Len(value)})} :
                   Slice(after, from, BufSize - from) = Slice(before, from, BufSize - from)
             /\ (h.emitted =>
                   \A x \in 96 .. Len(value) - 1 :
                      At(after, x) = Xor(At(before, x), Rc4KeyStream(sk, x - 96)))
             /\ (~h.emitted => after = before)]_vars

C29_Witness ==
    /\ Len(cacheHist) = 1
    /\ cacheHist[1].value = [size |-> 172, u |-> 8, d |-> 4, n |-> 0, text |-> 1]
    /\ cacheHist[1].emitted /\ cacheHist[1].crypted = 76
    /\ At(bCacheVal, 0) = 8 /\ At(bCacheVal, 2) = 4 /\ At(bCacheVal, 60) = 0
    /\ Slice(bCacheVal, 64, 16) = [k \in 1 .. 16 |-> (3 * (63 + k) + 1) % 256]
    /\ Slice(bCacheVal, 64, 16) = Slice(Registry[keyId][cacheHist[1].value], 64, 16)
    /\ At(bCacheVal, 96) = 112
    /\ At(bCacheVal, 96) # At(Registry[keyId][cacheHist[1].value], 96)
    /\ At(bCacheVal, 172) \in StackFill


\* C30: when the username length and the domain length are even numbers in
\* 0 .. 254, pad1 and pad2 are each 0 or 2 and the offsets 168 + usernameLen + pad1
\* and 168 + usernameLen + pad1 + domainLen + pad2 are multiples of 4; they are the
\* pads and the offsets the code computes
C30_OffsetsAligned ==
    (usernameLen % 2 = 0 /\ domainLen % 2 = 0 /\ usernameLen <= 254 /\ domainLen <= 254
        /\ opc # "idle") =>
    LET pad1 == 2 * ((usernameLen \div 2) % 2)
        pad2 == 2 * ((domainLen \div 2) % 2)
    IN  /\ pad1 \in {0, 2} /\ pad2 \in {0, 2}
        /\ (168 + usernameLen + pad1) % 4 = 0
        /\ (168 + usernameLen + pad1 + domainLen + pad2) % 4 = 0
        /\ Joke(usernameLen) = pad1 /\ Joke(domainLen) = pad2
        /\ DomainBase(usernameLen) = 168 + usernameLen + pad1
        /\ DnsBase(usernameLen, domainLen) = 168 + usernameLen + pad1 + domainLen + pad2
        /\ (opc \in {"copy", "next"} /\ usernameLen # 0 => dwJoke = <<pad1, pad2>>)
        /\ (opc = "next" /\ usernameLen # 0 =>
               /\ domainOffset = 168 + usernameLen + pad1
               /\ dnsOffset = 168 + usernameLen + pad1 + domainLen + pad2
               /\ domainOffset % 4 = 0 /\ dnsOffset % 4 = 0)

C30_Witness ==
    /\ opc = "next" /\ usernameLen = 254 /\ domainLen = 254
    /\ dwJoke = <<2, 2>> /\ domainOffset = 424 /\ dnsOffset = 680


\* C31: main between its wait and its release, and every worker between its wait
\* and its release, holds the semaphore, and at most one of them does; nThreads
\* is never negative and equals the number of workers counted in by main and not
\* yet counted out (a worker whose thread could not be started stays counted in);
\* a worker counts itself out once, after its host run, whatever the run did
C31_CounterUnderSemaphore ==
    LET inMain == IF mpc \in {"Inc", "Release"} THEN 1 ELSE 0
        countedInNotBegun == IF mpc \in {"Release", "beginthread"} THEN 1 ELSE 0
    IN  /\ hSemaphore \in {0, 1}
        /\ inMain + tDec + tRelease = 1 - hSemaphore
        /\ nThreads >= 0
        /\ nThreads = countedInNotBegun + tRun + tWait + tDec + tFailed

C31_Witness ==
    /\ mpc = "WaitSem" /\ hSemaphore = 0 /\ tDec = 1 /\ tWait = 1 /\ tRun = 1
    /\ nThreads = 3


\* C32: main has left its last loop only when no worker it started is still in its
\* host run or has still to decrement nThreads; and main is never left waiting in
\* that loop on a positive nThreads that no worker is there to decrement, so that
\* it exits once the host runs have ended, also after a thread failed to start
C32_MainExitsAfterWorkers ==
    /\ (mpc = "exit" => tRun = 0 /\ tWait = 0 /\ tDec = 0)
    /\ (mpc = "drain" /\ nThreads > 0 => tRun + tWait + tDec > 0)


\* C33: the two 16-byte ciphertexts a history line was decoded from, at
\* 0x10 * j + 0x44 and at 0x10 * j + 0x44 + dwOffset of the blob, lie within the
\* dwSize bytes of the blob
C33_HistoryReadsInBlob ==
    (samRoutine = "DumpPWHistoryHashes" /\ spc \in {"HistorySlot", "LocalFree"}) =>
    \A k \in DOMAIN samOut :
       samOut[k].hist >= 1 =>
          /\ samOut[k].nt.at = 16 * samOut[k].hist + 68
          /\ samOut[k].lm.at = 16 * samOut[k].hist + 68 + dwOffset
          /\ samOut[k].nt.at + 16 <= dwPrivSize
          /\ samOut[k].lm.at + 16 <= dwPrivSize


\* C34: after the three copy loops the '\0' of szUsername, of szDomain and of
\* szDNSDomain was written at an index within 0 .. 127 (CHAR sz...[ 128 ]), and the
\* highest index of bCacheVal read is below 4096
C34_TextBuffersInBounds ==
    (opc = "next" /\ usernameLen # 0) =>
        /\ \A f \in 1 .. 3 : nulIndex[f] >= 0 /\ nulIndex[f] <= 127
        /\ lastRead >= 0 /\ lastRead <= BufSize - 1


\* C35: when InjectDll was called, the receive thread had created the named pipe
\* (and had signalled the event: main is past its wait)
C35_InjectAfterPipeCreated ==
    pipeAtInject # "not called" => pipeAtInject \in {"open", "closed"}

\* C36: main comes to its end on every path: it is never left waiting for the
\* receive thread while that thread waits on the pipe for a client and none has
\* connected (the injection failed, or the injected routine did not connect), and
\* the receive thread has left its read loop once a read has failed with an error
\* other than ERROR_BROKEN_PIPE
C36_MainTerminates ==
    /\ (l2pc = "WaitThread" /\ rpc = "ConnectNamedPipe" /\ hPipe = "open")
          => pipeClient # "none"
    /\ (rpc = "ReadFile" => dwErr # "other")


\* C37: DumpLSAInfo is given the four flags of the command line, each in its place,
\* and every index of pArguments assigned to is below the number of its elements
C37_FlagsReachEngine ==
    /\ (fpc = "DumpLSAInfo" => flagsEngine = flagsCmd)
    /\ \A k \in DOMAIN pArgumentsWritten :
          pArgumentsWritten[k] >= 0 /\ pArgumentsWritten[k] < SizeofArguments


\* C38: when DumpPWHashes or DumpPWHistoryHashes returns, each library it loaded
\* (samsrv.dll, advapi32.dll) has been freed, and none is freed that was not
\* loaded
C38_LibrariesReleased ==
    /\ (spc = "return" => hSAMSrv \in {"null", "freed"} /\ hAdvapi32 \in {"null", "freed"})
    /\ (spc = "FreeLibrary" => hSAMSrv = "loaded")

====
